---- MODULE Spec2Model ----
(***************************************************************************)
(* CAROMAR: the request handlers of server.js and the validation helpers   *)
(* they call, as a state machine.  One inbound request is in flight at a   *)
(* time; every await of an upstream GitHub call is a step of its own, and  *)
(* the outcome of the call is chosen by the environment.  A second run of  *)
(* the same handler (the twin) is carried along in lock step: it receives  *)
(* a request that differs at most in the `token` query parameter and       *)
(* upstream outcomes that differ at most in the wording of the error       *)
(* message, so that two-run statements can be stated over one state.       *)
(***************************************************************************)
EXTENDS Integers, Sequences, FiniteSets, TLC

VARIABLES
    handler,       \* the handler of the request in flight, "none" when idle
    request,       \* the request in flight
    twinRequest,   \* the twin's request
    run,           \* the run of the handler on request
    twin,          \* the run of the handler on twinRequest
    outcomes,      \* history: what each upstream call of run came back with
    sameUpstream,  \* history: the twin has seen the very same outcomes
    requests,      \* RateLimiter: this.requests, identifier -> timestamps
    now,           \* RateLimiter: what Date.now() returns
    allowed,       \* history: per identifier, the times of the calls allowed
    blocked        \* history: per identifier, its latest refusal, if any

limiter == <<requests, now, allowed, blocked>>

vars == <<handler, request, twinRequest, run, twin, outcomes, sameUpstream,
          requests, now, allowed, blocked>>

(***************************************************************************)
(* JavaScript values.  A string is a sequence of one-character strings.    *)
(***************************************************************************)
Undef == [t |-> "undefined"]
Null == [t |-> "null"]
NaN == [t |-> "nan"]
S(s) == [t |-> "string", v |-> s]
N(n) == [t |-> "number", v |-> n]
Arr(a) == [t |-> "array", v |-> a]
Obj(o) == [t |-> "object", v |-> o]
Bool(b) == [t |-> "boolean", v |-> b]

Truthy(x) ==
    CASE x.t = "string" -> Len(x.v) > 0
      [] x.t = "number" -> x.v # 0
      [] x.t = "array" -> TRUE
      [] x.t = "object" -> TRUE
      [] x.t = "boolean" -> x.v
      [] OTHER -> FALSE

IsString(x) == x.t = "string"

Rep(c, n) == [i \in 1..n |-> c]

Min(a, b) == IF a < b THEN a ELSE b
Max(a, b) == IF a > b THEN a ELSE b

Lower == {"a","b","c","d","e","f","g","h","i","j","k","l","m",
          "n","o","p","q","r","s","t","u","v","w","x","y","z"}
Upper == {"A","B","C","D","E","F","G","H","I","J","K","L","M",
          "N","O","P","Q","R","S","T","U","V","W","X","Y","Z"}
Digits == {"0","1","2","3","4","5","6","7","8","9"}
Alnum == Lower \cup Upper \cup Digits
Whitespace == {" ", "\t", "\n", "\r"}

(***************************************************************************)
(* Bounds of the model (not constants of the program).                     *)
(***************************************************************************)
\* Upstream list pages hold 0..MaxListed records.
MaxListed == 2
\* Request bodies carry repository arrays of 0..MaxRecords ordinary entries
\* (besides the arrays at the 50-entry limit).
MaxRecords == 2
\* Repository sizes compared for similarity are 0..MaxSize.
MaxSize == 2
\* Topic lists compared for similarity hold 0..MaxTopics names.
MaxTopics == 2
\* The counts of a record given to analytics and comparison are built from
\* levels 0..MaxCount.
MaxCount == 2

(***************************************************************************)
(* utils/validation.js                                                     *)
(***************************************************************************)
MinTokenLength == 40
MaxTokenLength == 255
MaxUsernameLength == 39
MaxRepoNameLength == 100
MaxSanitizedLength == 1000
MaxRepoPathLength == 1000
DefaultPerPage == 30
MaxPerPage == 100

isValidGitHubUsername(username) ==
    /\ Truthy(username)
    /\ IsString(username)
    /\ LET s == username.v
           n == Len(s)
       IN  /\ n <= MaxUsernameLength
           /\ s[1] \in Alnum
           /\ s[n] \in Alnum
           /\ \A i \in 1..n : s[i] \in Alnum \cup {"-"}

isValidRepositoryName(repoName) ==
    /\ Truthy(repoName)
    /\ IsString(repoName)
    /\ Len(repoName.v) <= MaxRepoNameLength
    /\ \A i \in 1..Len(repoName.v) : repoName.v[i] \in Alnum \cup {".", "_", "-"}

isValidGitHubToken(token) ==
    /\ Truthy(token)
    /\ IsString(token)
    /\ Len(token.v) >= MinTokenLength
    /\ Len(token.v) <= MaxTokenLength

RECURSIVE TrimStart(_)
TrimStart(s) ==
    IF Len(s) > 0 /\ Head(s) \in Whitespace THEN TrimStart(Tail(s)) ELSE s

RECURSIVE TrimEnd(_)
TrimEnd(s) ==
    IF Len(s) > 0 /\ s[Len(s)] \in Whitespace
    THEN TrimEnd(SubSeq(s, 1, Len(s) - 1))
    ELSE s

StripAngles(s) == SelectSeq(s, LAMBDA c : c \notin {"<", ">"})

sanitizeString(input) ==
    IF ~IsString(input)
    THEN S(<<>>)
    ELSE LET trimmed == TrimEnd(TrimStart(StripAngles(input.v)))
         IN  S(SubSeq(trimmed, 1, Min(Len(trimmed), MaxSanitizedLength)))

\* repoPath.split('/'): the pieces between one separator (or the start) and
\* the next (or the end), as a set.
Segments(s) ==
    LET cuts == {0, Len(s) + 1} \cup {i \in 1..Len(s) : s[i] = "/"}
    IN  {SubSeq(s, a + 1, b - 1) :
            <<a, b>> \in {c \in cuts \X cuts :
                            /\ c[1] < c[2]
                            /\ ~\E m \in cuts : c[1] < m /\ m < c[2]}}

\* segments.some(segment => segment === '..')
HasDotDotSegment(s) == <<".", ".">> \in Segments(s)

\* A traversal check that looks at the first segment only.
isValidRepoPathFirstSegmentOnly(repoPath) ==
    IF repoPath.t \in {"undefined", "null"} \/ repoPath = S(<<>>)
    THEN TRUE
    ELSE IF ~IsString(repoPath)
    THEN FALSE
    ELSE IF Head(repoPath.v) = "/" \/ \E i \in 1..Len(repoPath.v) : repoPath.v[i] = "\\"
    THEN FALSE
    ELSE IF \/ repoPath.v = <<".", ".">>
            \/ Len(repoPath.v) >= 3 /\ SubSeq(repoPath.v, 1, 3) = <<".", ".", "/">>
    THEN FALSE
    ELSE /\ Len(repoPath.v) <= MaxRepoPathLength
         /\ \A i \in 1..Len(repoPath.v) :
                repoPath.v[i] \in Alnum \cup {".", "_", "/", "-"}

isValidRepoPath(repoPath) ==
    IF repoPath.t \in {"undefined", "null"} \/ repoPath = S(<<>>)
    THEN TRUE
    ELSE IF ~IsString(repoPath)
    THEN FALSE
    ELSE IF Head(repoPath.v) = "/" \/ \E i \in 1..Len(repoPath.v) : repoPath.v[i] = "\\"
    THEN FALSE
    ELSE IF HasDotDotSegment(repoPath.v)
    THEN FALSE
    ELSE /\ Len(repoPath.v) <= MaxRepoPathLength
         /\ \A i \in 1..Len(repoPath.v) :
                repoPath.v[i] \in Alnum \cup {".", "_", "/", "-"}

DigitValue(c) ==
    CASE c = "0" -> 0 [] c = "1" -> 1 [] c = "2" -> 2 [] c = "3" -> 3
      [] c = "4" -> 4 [] c = "5" -> 5 [] c = "6" -> 6 [] c = "7" -> 7
      [] c = "8" -> 8 [] c = "9" -> 9

RECURSIVE DigitPrefix(_, _)
DigitPrefix(s, acc) ==
    IF Len(s) > 0 /\ Head(s) \in Digits
    THEN DigitPrefix(Tail(s), acc * 10 + DigitValue(Head(s)))
    ELSE acc

\* JavaScript's parseInt on a number (an integer here) or a decimal string:
\* leading whitespace, an optional sign, then the longest run of digits.
parseInt(x) ==
    IF x.t = "number"
    THEN x
    ELSE IF x.t = "string"
    THEN LET s1 == TrimStart(x.v)
             signed == Len(s1) > 0 /\ Head(s1) \in {"+", "-"}
             s2 == IF signed THEN Tail(s1) ELSE s1
         IN  IF Len(s2) = 0 \/ Head(s2) \notin Digits
             THEN NaN
             ELSE IF signed /\ Head(s1) = "-"
                  THEN N(0 - DigitPrefix(s2, 0))
                  ELSE N(DigitPrefix(s2, 0))
    ELSE NaN

\* `parseInt(x) || d`
OrDefault(x, d) == IF Truthy(x) THEN x.v ELSE d

\* A page that is not floored at 1.
validatePaginationWithoutFloor(page, perPage) ==
    [page |-> OrDefault(parseInt(page), 1),
     perPage |-> Min(MaxPerPage, Max(1, OrDefault(parseInt(perPage), DefaultPerPage)))]

validatePagination(page, perPage) ==
    [page |-> Max(1, OrDefault(parseInt(page), 1)),
     perPage |-> Min(MaxPerPage, Max(1, OrDefault(parseInt(perPage), DefaultPerPage)))]

validateSort(sort, allowedValues) ==
    IF ~Truthy(sort) \/ \A i \in 1..Len(allowedValues) : allowedValues[i] # sort
    THEN allowedValues[1]
    ELSE sort


(***************************************************************************)
(* Upstream calls and their outcomes                                       *)
(***************************************************************************)
\* A piece of an upstream URL: fixed text, or text taken from the request.
Lit(text) == [lit |-> text]
Var(s) == [var |-> s]

Call(method, url, authorization, payload) ==
    [method |-> method, url |-> url, authorization |-> authorization,
     payload |-> payload]

\* axios' error.message for a non-2xx response.
AxiosMessage(status) == S(<<"Request failed with status code ", ToString(status)>>)

Ok(data) == [ok |-> TRUE, data |-> data]
\* A success whose x-oauth-scopes header is read; the header is Undef or the
\* string that joins the listed scope names with ', '.
OkWithScopes(data, scopes) == [ok |-> TRUE, data |-> data, scopes |-> scopes]
HttpError(status, message) ==
    [ok |-> FALSE,
     response |-> [status |-> status,
                   data |-> [message |-> message],
                   headers |-> [x_ratelimit_reset |-> Undef]],
     message |-> AxiosMessage(status)]
\* An exception without a `response`: a network failure, or a TypeError.
Thrown(message) == [ok |-> FALSE, response |-> Undef, message |-> message]
NetworkError(message) == Thrown(message)

UpstreamStatuses == {400, 401, 403, 404, 422, 500}
UpstreamText == S(<<"upstream wording one">>)
OtherUpstreamText == S(<<"upstream wording two">>)
NetworkText == S(<<"connect ECONNREFUSED">>)
OtherNetworkText == S(<<"socket hang up">>)

Failures ==
    {HttpError(st, m) : st \in UpstreamStatuses, m \in {Undef, UpstreamText}}
        \cup {NetworkError(NetworkText)}

\* The outcomes the twin run may see where this run sees o: the same outcome,
\* or the same failure worded differently.
Reworded(o) ==
    IF o.ok
    THEN {o}
    ELSE IF o.response = Undef
    THEN {o, NetworkError(OtherNetworkText)}
    ELSE {o, HttpError(o.response.status, OtherUpstreamText)}

\* error.response?.status, 0 standing for undefined
ErrorStatus(error) == IF error.response = Undef THEN 0 ELSE error.response.status

\* error.response?.data?.message || error.message
ErrorDetails(error) ==
    IF error.response # Undef /\ Truthy(error.response.data.message)
    THEN error.response.data.message
    ELSE error.message

(***************************************************************************)
(* A run of a handler: where it is, the upstream calls it has issued, the  *)
(* locals it keeps across an await, and the response once it has replied.  *)
(***************************************************************************)
Idle == [pc |-> "idle", calls |-> <<>>, ctx |-> Undef, status |-> 0, body |-> Undef]

Reply(calls, status, body) ==
    [pc |-> "done", calls |-> calls, ctx |-> Undef, status |-> status, body |-> body]

Await(pc, calls, ctx) ==
    [pc |-> pc, calls |-> calls, ctx |-> ctx, status |-> 0, body |-> Undef]

BearerPrefix == <<"B", "e", "a", "r", "e", "r", " ">>
TokenPrefix == <<"t", "o", "k", "e", "n", " ">>

startsWith(s, prefix) ==
    Len(s) >= Len(prefix) /\ SubSeq(s, 1, Len(prefix)) = prefix

\* A scheme match that ignores the case of the first letter.
BearerTokenAnyCase(authHeader) ==
    IF /\ IsString(authHeader)
       /\ \/ startsWith(authHeader.v, BearerPrefix)
          \/ startsWith(authHeader.v, <<"b", "e", "a", "r", "e", "r", " ">>)
    THEN S(SubSeq(authHeader.v, Len(BearerPrefix) + 1, Len(authHeader.v)))
    ELSE Null

\* authHeader?.startsWith('Bearer ') ? authHeader.substring(7) : null
BearerToken(authHeader) ==
    IF IsString(authHeader) /\ startsWith(authHeader.v, BearerPrefix)
    THEN S(SubSeq(authHeader.v, Len(BearerPrefix) + 1, Len(authHeader.v)))
    ELSE Null

\* A handler that falls back to req.query.token when the header gives nothing.
RequestTokenOrQuery(req) ==
    IF BearerToken(req.authorization) = Null /\ req.query_token # Undef
    THEN req.query_token
    ELSE BearerToken(req.authorization)

\* The token a GET handler works with: read from req.headers.authorization;
\* req.query is not consulted.
RequestToken(req) == BearerToken(req.authorization)

\* 'Authorization': `token ${token}`
TokenHeader(token) == S(TokenPrefix \o token.v)

\* The optional upstream Authorization header of search and repo-content.
OptionalTokenHeader(token) == IF Truthy(token) THEN TokenHeader(token) ELSE Undef

\* Destructuring default: `x = d` takes d when x is undefined.
Default(x, d) == IF x = Undef THEN d ELSE x

(***************************************************************************)
(* GET /api/search-repos                                                   *)
(***************************************************************************)
Updated == S(<<"u","p","d","a","t","e","d">>)
Created == S(<<"c","r","e","a","t","e","d">>)
Pushed == S(<<"p","u","s","h","e","d">>)
FullName == S(<<"f","u","l","l","_","n","a","m","e">>)
All == S(<<"a","l","l">>)
allowedSorts == <<Updated, Created, Pushed, FullName>>

SearchStart(req) ==
    LET token == RequestToken(req)
        username == sanitizeString(req.username)
    IN  IF ~Truthy(username) \/ ~isValidGitHubUsername(username)
        THEN Reply(<<>>, 400, [error |-> "Valid username is required"])
        ELSE IF Truthy(token) /\ ~isValidGitHubToken(token)
        THEN Reply(<<>>, 400, [error |-> "Invalid token format"])
        ELSE LET pagination == validatePagination(Default(req.page, N(1)),
                                                  Default(req.per_page, N(100)))
                 headers == OptionalTokenHeader(token)
             IN  Await("search_probe",
                       <<Call("GET", <<Lit("users"), Var(username.v)>>, headers, Undef)>>,
                       [username |-> username.v,
                        headers |-> headers,
                        page |-> pagination.page,
                        per_page |-> pagination.perPage,
                        sort |-> validateSort(Default(req.sort, Updated), allowedSorts),
                        type |-> Default(req.type, All)])

\* The probe has returned: a failed probe (or one that throws while it is
\* read) leaves the user endpoint in place; the list call is issued.
\* A catch without the branch for 404: an unknown owner ends as a generic failure.
SearchFailureWithout404(calls, error) ==
    IF ErrorStatus(error) = 403
    THEN Reply(calls, 403,
               [error |-> "API rate limit exceeded or insufficient permissions",
                reset_time |-> IF Truthy(error.response.headers.x_ratelimit_reset)
                               THEN [date |-> error.response.headers.x_ratelimit_reset.v * 1000]
                               ELSE Null])
    ELSE Reply(calls, 500,
               [error |-> "Failed to fetch repositories", details |-> error.message])

\* catch (error) of /api/search-repos
SearchFailure(calls, error) ==
    IF ErrorStatus(error) = 403
    THEN Reply(calls, 403,
               [error |-> "API rate limit exceeded or insufficient permissions",
                reset_time |-> IF Truthy(error.response.headers.x_ratelimit_reset)
                               THEN [date |-> error.response.headers.x_ratelimit_reset.v * 1000]
                               ELSE Null])
    ELSE IF ErrorStatus(error) = 404
    THEN Reply(calls, 404, [error |-> "User not found"])
    ELSE Reply(calls, 500,
               [error |-> "Failed to fetch repositories", details |-> error.message])

\* A probe whose failure is not caught on the spot: the handler's catch maps it.
SearchProbeDoneAborting(r, o) ==
    IF ~o.ok
    THEN SearchFailure(r.calls, o)
    ELSE LET endpoint == IF o.data.type = "Organization"
                         THEN <<Lit("orgs"), Var(r.ctx.username), Lit("repos")>>
                         ELSE <<Lit("users"), Var(r.ctx.username), Lit("repos")>>
         IN  Await("search_list",
                   Append(r.calls,
                          Call("GET", endpoint, r.ctx.headers,
                               [per_page |-> Min(r.ctx.per_page, 100),
                                page |-> r.ctx.page,
                                sort |-> r.ctx.sort,
                                type |-> r.ctx.type,
                                direction |-> "desc"])),
                   r.ctx)

SearchProbeDone(r, o) ==
    LET endpoint == IF o.ok /\ o.data.type = "Organization"
                    THEN <<Lit("orgs"), Var(r.ctx.username), Lit("repos")>>
                    ELSE <<Lit("users"), Var(r.ctx.username), Lit("repos")>>
    IN  Await("search_list",
              Append(r.calls,
                     Call("GET", endpoint, r.ctx.headers,
                          [per_page |-> Min(r.ctx.per_page, 100),
                           page |-> r.ctx.page,
                           sort |-> r.ctx.sort,
                           type |-> r.ctx.type,
                           direction |-> "desc"])),
              r.ctx)

ReshapeRepo(repo) == [id |-> repo.id, name |-> repo.name, full_name |-> repo.full_name]

\* A summary that reports more pages whenever the page is not empty.
SearchListDoneMoreWhenNonEmpty(r, o) ==
    IF o.ok
    THEN LET repos == [i \in 1..Len(o.data) |-> ReshapeRepo(o.data[i])]
         IN  Reply(r.calls, 200,
                   [repos |-> repos,
                    pagination |-> [page |-> parseInt(N(r.ctx.page)).v,
                                    per_page |-> parseInt(N(r.ctx.per_page)).v,
                                    total |-> Len(repos),
                                    has_more |-> Len(repos) > 0]])
    ELSE SearchFailure(r.calls, o)

SearchListDone(r, o) ==
    IF o.ok
    THEN LET repos == [i \in 1..Len(o.data) |-> ReshapeRepo(o.data[i])]
         IN  Reply(r.calls, 200,
                   [repos |-> repos,
                    pagination |-> [page |-> parseInt(N(r.ctx.page)).v,
                                    per_page |-> parseInt(N(r.ctx.per_page)).v,
                                    total |-> Len(repos),
                                    has_more |-> Len(repos) = parseInt(N(r.ctx.per_page)).v]])
    ELSE SearchFailure(r.calls, o)


(***************************************************************************)
(* POST /api/fork-repo                                                     *)
(***************************************************************************)
ForkStart(req) ==
    LET owner == sanitizeString(req.owner)
        repo == sanitizeString(req.repo)
        token == req.token
        organization == IF Truthy(req.organization)
                        THEN sanitizeString(req.organization)
                        ELSE req.organization
    IN  IF ~Truthy(owner) \/ ~isValidGitHubUsername(owner)
        THEN Reply(<<>>, 400, [error |-> "Valid owner is required"])
        ELSE IF ~Truthy(repo) \/ ~isValidRepositoryName(repo)
        THEN Reply(<<>>, 400, [error |-> "Valid repository name is required"])
        ELSE IF ~Truthy(token) \/ ~isValidGitHubToken(token)
        THEN Reply(<<>>, 400, [error |-> "Valid token is required"])
        ELSE IF Truthy(req.organization) /\ ~isValidGitHubUsername(organization)
        THEN Reply(<<>>, 400, [error |-> "Valid organization name is required"])
        ELSE Await("fork",
                   <<Call("POST",
                          <<Lit("repos"), Var(owner.v), Var(repo.v), Lit("forks")>>,
                          TokenHeader(token),
                          IF Truthy(organization)
                          THEN [organization |-> organization]
                          ELSE [none |-> TRUE])>>,
                   Undef)

\* A catch that answers with the upstream wording as the error itself.
ForkDoneEchoingUpstream(r, o) ==
    IF o.ok
    THEN Reply(r.calls, 200,
               [success |-> TRUE,
                fork_url |-> o.data.html_url,
                clone_url |-> o.data.clone_url,
                ssh_url |-> o.data.ssh_url,
                full_name |-> o.data.full_name,
                message |-> "Repository forked successfully"])
    ELSE Reply(r.calls, IF ErrorStatus(o) \in {403, 404, 422} THEN ErrorStatus(o) ELSE 500,
               [error |-> ErrorDetails(o), details |-> ErrorDetails(o)])

ForkDone(r, o) ==
    IF o.ok
    THEN Reply(r.calls, 200,
               [success |-> TRUE,
                fork_url |-> o.data.html_url,
                clone_url |-> o.data.clone_url,
                ssh_url |-> o.data.ssh_url,
                full_name |-> o.data.full_name,
                message |-> "Repository forked successfully"])
    ELSE LET mapped ==
                 CASE ErrorStatus(o) = 403 ->
                          [status |-> 403,
                           error |-> "Insufficient permissions or repository already forked"]
                   [] ErrorStatus(o) = 404 ->
                          [status |-> 404,
                           error |-> "Repository not found or not accessible"]
                   [] ErrorStatus(o) = 422 ->
                          [status |-> 422,
                           error |-> "Repository already exists or cannot be forked"]
                   [] OTHER ->
                          [status |-> 500, error |-> "Failed to fork repository"]
         IN  Reply(r.calls, mapped.status,
                   [error |-> mapped.error, details |-> ErrorDetails(o)])

(***************************************************************************)
(* POST /api/create-merged-repo                                            *)
(***************************************************************************)
MaxMergedRepositories == 50

\* Reading a property of null or undefined throws a TypeError.
ThrowsOnRead(x) == x.t \in {"null", "undefined"}
TypeErrorText == S(<<"Cannot read properties of null">>)

\* repo.name of an array entry that is an object
NameOf(entry) == IF entry.t = "object" THEN entry.v.name ELSE Undef
CloneUrlOf(entry) == IF entry.t = "object" THEN entry.v.clone_url ELSE Undef

CreateFailure(calls, error) ==
    IF ErrorStatus(error) = 422
    THEN Reply(calls, 422,
               [error |-> "Repository name already exists or is invalid",
                details |-> ErrorDetails(error)])
    ELSE IF ErrorStatus(error) = 403
    THEN Reply(calls, 403,
               [error |-> "Insufficient permissions to create repository",
                details |-> ErrorDetails(error)])
    ELSE Reply(calls, 500,
               [error |-> "Failed to create merged repository",
                details |-> ErrorDetails(error)])

\* A limit check that is off by one: it turns away the 50th repository.
ExceedsMergeLimitFromFifty(repositories) ==
    Len(repositories.v) >= MaxMergedRepositories

\* repositories.length > 50
ExceedsMergeLimit(repositories) == Len(repositories.v) > MaxMergedRepositories

CreateStart(req) ==
    LET name == sanitizeString(req.name)
        repositories == req.repositories
        token == req.token
        description == sanitizeString(req.description)
    IN  IF ~Truthy(name) \/ ~isValidRepositoryName(name)
        THEN Reply(<<>>, 400, [error |-> "Valid repository name is required"])
        ELSE IF ~Truthy(repositories) \/ repositories.t # "array" \/ Len(repositories.v) = 0
        THEN Reply(<<>>, 400, [error |-> "At least one repository is required"])
        ELSE IF ExceedsMergeLimit(repositories)
        THEN Reply(<<>>, 400, [error |-> "Maximum 50 repositories can be merged at once"])
        ELSE IF ~Truthy(token) \/ ~isValidGitHubToken(token)
        THEN Reply(<<>>, 400, [error |-> "Valid token is required"])
        \* description || `Merged repository containing: ${...map(r => r.name)...}`
        ELSE IF ~Truthy(description) /\ \E i \in 1..Len(repositories.v) :
                                            ThrowsOnRead(repositories.v[i])
        THEN CreateFailure(<<>>, Thrown(TypeErrorText))
        ELSE Await("create",
                   <<Call("POST", <<Lit("user"), Lit("repos")>>, TokenHeader(token),
                          [name |-> name,
                           description |->
                               IF Truthy(description)
                               THEN description
                               ELSE [containing |->
                                        [i \in 1..Len(repositories.v) |->
                                            NameOf(repositories.v[i])]],
                           private |-> Default(req.private, Bool(FALSE)),
                           auto_init |-> TRUE])>>,
                   [repositories |-> repositories])

\* The five commands issued for all sources one kind after the other: every
\* mkdir first, then every cd, and so on.
MergeStepsByKind(repositories) ==
    LET n == Len(repositories)
        step(kind, repo) ==
            CASE kind = 1 -> [cmd |-> "mkdir", arg |-> sanitizeString(NameOf(repo))]
              [] kind = 2 -> [cmd |-> "cd", arg |-> sanitizeString(NameOf(repo))]
              [] kind = 3 -> [cmd |-> "git clone into .", arg |-> CloneUrlOf(repo)]
              [] kind = 4 -> [cmd |-> "rm -rf .git", arg |-> Undef]
              [] OTHER -> [cmd |-> "cd ..", arg |-> Undef]
    IN  [k \in 1..(5 * n) |-> step(((k - 1) \div n) + 1, repositories[((k - 1) % n) + 1])]

RECURSIVE MergeSteps(_)
\* repositories.map(repo => [...five commands...]).flat()
MergeSteps(repositories) ==
    IF Len(repositories) = 0
    THEN <<>>
    ELSE LET repo == Head(repositories)
         IN  <<[cmd |-> "mkdir", arg |-> sanitizeString(NameOf(repo))],
               [cmd |-> "cd", arg |-> sanitizeString(NameOf(repo))],
               [cmd |-> "git clone into .", arg |-> CloneUrlOf(repo)],
               [cmd |-> "rm -rf .git", arg |-> Undef],
               [cmd |-> "cd ..", arg |-> Undef]>> \o MergeSteps(Tail(repositories))

CreateDone(r, o) ==
    IF ~o.ok
    THEN CreateFailure(r.calls, o)
    ELSE IF \E i \in 1..Len(r.ctx.repositories.v) : ThrowsOnRead(r.ctx.repositories.v[i])
    \* building merge_instructions reads repo.name of every entry
    THEN CreateFailure(r.calls, Thrown(TypeErrorText))
    ELSE Reply(r.calls, 200,
               [success |-> TRUE,
                repository |-> [name |-> o.data.name,
                                full_name |-> o.data.full_name,
                                html_url |-> o.data.html_url,
                                clone_url |-> o.data.clone_url,
                                ssh_url |-> o.data.ssh_url],
                message |-> "Repository created successfully",
                merge_instructions |->
                    [repositories |-> r.ctx.repositories,
                     steps |-> <<[cmd |-> "git clone", arg |-> o.data.clone_url],
                                 [cmd |-> "cd", arg |-> sanitizeString(o.data.name)]>>
                                   \o MergeSteps(r.ctx.repositories.v)]])

(***************************************************************************)
(* GET /api/repo-content                                                   *)
(***************************************************************************)
ContentStart(req) ==
    LET token == RequestToken(req)
        owner == sanitizeString(req.owner)
        repo == sanitizeString(req.repo)
        path == sanitizeString(Default(req.path, S(<<>>)))
    IN  IF ~Truthy(owner) \/ ~isValidGitHubUsername(owner)
        THEN Reply(<<>>, 400, [error |-> "Valid owner is required"])
        ELSE IF ~Truthy(repo) \/ ~isValidRepositoryName(repo)
        THEN Reply(<<>>, 400, [error |-> "Valid repository name is required"])
        ELSE IF ~isValidRepoPath(path)
        THEN Reply(<<>>, 400, [error |-> "Valid repository path is required"])
        ELSE Await("content",
                   <<Call("GET",
                          <<Lit("repos"), Var(owner.v), Var(repo.v), Lit("contents"),
                            Var(path.v)>>,
                          OptionalTokenHeader(token), Undef)>>,
                   Undef)

\* A handler that tries the contents call once more when it fails.
ContentDoneRetrying(r, o) ==
    IF o.ok
    THEN Reply(r.calls, 200, [content |-> o.data])
    ELSE IF Len(r.calls) < 2
    THEN Await("content", Append(r.calls, r.calls[1]), r.ctx)
    ELSE Reply(r.calls, IF ErrorStatus(o) # 0 THEN ErrorStatus(o) ELSE 500,
               [error |-> "Failed to fetch repository content",
                details |-> ErrorDetails(o)])

ContentDone(r, o) ==
    IF o.ok
    THEN Reply(r.calls, 200, [content |-> o.data])
    \* error.response?.status || 500
    ELSE Reply(r.calls, IF ErrorStatus(o) # 0 THEN ErrorStatus(o) ELSE 500,
               [error |-> "Failed to fetch repository content",
                details |-> ErrorDetails(o)])

(***************************************************************************)
(* GET /api/user                                                           *)
(***************************************************************************)
UserFailure(calls, error) ==
    IF ErrorStatus(error) = 401
    THEN Reply(calls, 401, [error |-> "Invalid or expired token"])
    ELSE IF ErrorStatus(error) = 403
    THEN Reply(calls, 403, [error |-> "Token lacks required permissions"])
    ELSE Reply(calls, 500, [error |-> "Failed to fetch user information"])

\* A handler that checks the token's format only once the profile call is out.
UserStartFormatCheckedLate(req) ==
    LET token == RequestToken(req)
    IN  IF ~Truthy(token)
        THEN Reply(<<>>, 400, [error |-> "Valid token is required"])
        ELSE IF ~isValidGitHubToken(token)
        THEN Reply(<<Call("GET", <<Lit("user")>>, TokenHeader(token), Undef)>>, 400,
                   [error |-> "Valid token is required"])
        ELSE Await("user_profile",
                   <<Call("GET", <<Lit("user")>>, TokenHeader(token), Undef)>>,
                   [headers |-> TokenHeader(token)])

UserStart(req) ==
    LET token == RequestToken(req)
    IN  IF ~Truthy(token) \/ ~isValidGitHubToken(token)
        THEN Reply(<<>>, 400, [error |-> "Valid token is required"])
        ELSE Await("user_profile",
                   <<Call("GET", <<Lit("user")>>, TokenHeader(token), Undef)>>,
                   [headers |-> TokenHeader(token)])

\* Both calls issued whatever the first one returns.
UserProfileDoneKeepsGoing(r, o) ==
    Await("user_rate",
          Append(r.calls, Call("GET", <<Lit("rate_limit")>>, r.ctx.headers, Undef)),
          [headers |-> r.ctx.headers,
           user |-> IF o.ok THEN o.data ELSE [login |-> Undef, name |-> Undef, type |-> Undef]])

UserProfileDone(r, o) ==
    IF o.ok
    THEN Await("user_rate",
               Append(r.calls, Call("GET", <<Lit("rate_limit")>>, r.ctx.headers, Undef)),
               [headers |-> r.ctx.headers, user |-> o.data])
    ELSE UserFailure(r.calls, o)

UserRateDone(r, o) ==
    IF o.ok
    THEN Reply(r.calls, 200,
               [username |-> r.ctx.user.login,
                name |-> r.ctx.user.name,
                type |-> r.ctx.user.type,
                rate_limit |-> o.data.rate])
    ELSE UserFailure(r.calls, o)

(***************************************************************************)
(* GET /api/validate-token                                                 *)
(***************************************************************************)
ValidateStart(req) ==
    LET token == RequestToken(req)
    IN  IF ~Truthy(token)
        THEN Reply(<<>>, 400, [error |-> "Token is required"])
        ELSE Await("validate",
                   <<Call("GET", <<Lit("user")>>, TokenHeader(token), Undef)>>,
                   Undef)

\* A catch that relays the upstream status like the other handlers do.
ValidateDoneRelayingStatus(r, o) ==
    IF o.ok
    THEN Reply(r.calls, 200,
               [valid |-> TRUE,
                scopes |-> IF o.scopes # Undef THEN o.scopes.v ELSE <<>>,
                required_scopes |-> <<"repo", "user">>,
                has_required_permissions |->
                    /\ o.scopes # Undef
                    /\ \E i \in 1..Len(o.scopes.v) : o.scopes.v[i] = "repo"
                    /\ \E i \in 1..Len(o.scopes.v) : o.scopes.v[i] = "user",
                user |-> [login |-> o.data.login, type |-> o.data.type]])
    ELSE Reply(r.calls, IF ErrorStatus(o) # 0 THEN ErrorStatus(o) ELSE 500,
               [valid |-> FALSE, error |-> ErrorDetails(o)])

ValidateDone(r, o) ==
    IF o.ok
    \* res.json(...) without res.status(...): the status is 200
    THEN LET scopes == IF o.scopes # Undef THEN o.scopes.v ELSE <<>>
         IN  Reply(r.calls, 200,
                   [valid |-> TRUE,
                    scopes |-> scopes,
                    required_scopes |-> <<"repo", "user">>,
                    has_required_permissions |->
                        /\ \E i \in 1..Len(scopes) : scopes[i] = "repo"
                        /\ \E i \in 1..Len(scopes) : scopes[i] = "user",
                    user |-> [login |-> o.data.login, type |-> o.data.type]])
    ELSE Reply(r.calls, 200, [valid |-> FALSE, error |-> ErrorDetails(o)])

(***************************************************************************)
(* utils/analytics.js and utils/comparison.js, as far as the handlers'     *)
(* responses need them.  A repository record is Obj(r) with r's counts     *)
(* integers and its flags booleans.                                        *)
(***************************************************************************)
RECURSIVE SumSeq(_)
SumSeq(numbers) ==
    IF Len(numbers) = 0 THEN 0 ELSE Head(numbers) + SumSeq(Tail(numbers))

\* repositories.reduce((sum, repo) => sum + repo[field], 0)
Sum(repositories, field) ==
    SumSeq([i \in 1..Len(repositories) |-> repositories[i].v[field]])

\* repositories.filter(r => r[flag]).length
Count(repositories, flag) ==
    Cardinality({i \in 1..Len(repositories) : repositories[i].v[flag]})

getTotalStats(repositories) ==
    [totalRepos |-> Len(repositories),
     totalStars |-> Sum(repositories, "stargazers_count"),
     totalForks |-> Sum(repositories, "forks_count"),
     totalWatchers |-> Sum(repositories, "watchers_count"),
     totalSize |-> Sum(repositories, "size"),
     totalIssues |-> Sum(repositories, "open_issues_count"),
     privateRepos |-> Count(repositories, "private"),
     forkedRepos |-> Count(repositories, "fork"),
     archivedRepos |-> Count(repositories, "archived")]

\* Math.round(a / b) for b > 0: halves round up
RoundDiv(a, b) == (2 * a + b) \div (2 * b)

\* The averages without the return for an empty list: 0 / 0 is NaN and so is
\* its Math.round.
getAverageMetricsUnguarded(repositories) ==
    LET count == Len(repositories)
        stats == getTotalStats(repositories)
    IN  IF count = 0
        THEN [avgStars |-> NaN, avgForks |-> NaN, avgWatchers |-> NaN,
              avgSize |-> NaN, avgIssues |-> NaN]
        ELSE [avgStars |-> RoundDiv(stats.totalStars, count),
              avgForks |-> RoundDiv(stats.totalForks, count),
              avgWatchers |-> RoundDiv(stats.totalWatchers, count),
              avgSize |-> RoundDiv(stats.totalSize, count),
              avgIssues |-> RoundDiv(stats.totalIssues, count)]

getAverageMetrics(repositories) ==
    LET count == Len(repositories)
        stats == getTotalStats(repositories)
    IN  IF count = 0
        THEN Null
        ELSE [avgStars |-> RoundDiv(stats.totalStars, count),
              avgForks |-> RoundDiv(stats.totalForks, count),
              avgWatchers |-> RoundDiv(stats.totalWatchers, count),
              avgSize |-> RoundDiv(stats.totalSize, count),
              avgIssues |-> RoundDiv(stats.totalIssues, count)]

\* [...array].sort(compare) for a comparator that orders by a number: keys[i]
\* is the number of array[i], smaller keys first.  The sort is stable: an
\* element's place is one more than the number of elements with a smaller
\* key or with the same key and an earlier index.
Sort(array, keys) ==
    LET n == Len(array)
        place(i) ==
            1 + Cardinality({j \in 1..n : keys[j] < keys[i]})
              + Cardinality({j \in 1..(i - 1) : keys[j] = keys[i]})
    IN  [k \in 1..n |-> array[CHOOSE i \in 1..n : place(i) = k]]

\* The keys of the comparator (a, b) => b[field] - a[field]
Descending(array, field) == [i \in 1..Len(array) |-> 0 - array[i].v[field]]
\* The keys of the comparator (a, b) => a[field] - b[field]
Ascending(array, field) == [i \in 1..Len(array) |-> array[i].v[field]]

Take(array, limit) == SubSeq(array, 1, Min(Len(array), limit))

getMostPopular(repositories, limit) ==
    Take(Sort(repositories, Descending(repositories, "stargazers_count")), limit)

getRecentlyUpdated(repositories, limit) ==
    Take(Sort(repositories, Descending(repositories, "updated_at")), limit)

\* The languages of the list in the order of their first occurrence, each
\* with the number of records that carry it, then sorted by that number,
\* larger first; records whose language is falsy are left out.  The result
\* is the list of the object's entries in key order.
getLanguageDistribution(repositories) ==
    LET n == Len(repositories)
        language(i) == repositories[i].v.language
        firsts == {i \in 1..n : /\ Truthy(language(i))
                                /\ \A j \in 1..(i - 1) : language(j) # language(i)}
        first(k) == CHOOSE i \in firsts : Cardinality({j \in firsts : j < i}) = k - 1
        entries == [k \in 1..Cardinality(firsts) |->
                       [language |-> language(first(k)),
                        count |-> Cardinality({j \in 1..n : language(j) = language(first(k))})]]
    IN  Sort(entries, [k \in 1..Len(entries) |-> 0 - entries[k].count])

\* array.filter(keep), keep given as the set of the indices to keep
Filter(array, kept) ==
    LET place(i) == Cardinality({j \in kept : j <= i})
    IN  [k \in 1..Cardinality(kept) |-> array[CHOOSE i \in kept : place(i) = k]]

TrendingStars == 10
TrendingDays == 30
AbandonedDays == 365
ActiveDays == 7

\* updated_at and today, the reading of the clock, are counted in days, so
\* that today - updated_at is daysSinceUpdate.
getSpecialRepos(repositories, type, today) ==
    LET n == Len(repositories)
        daysSinceUpdate(i) == today - repositories[i].v.updated_at
        trending == Filter(repositories,
                           {i \in 1..n : /\ repositories[i].v.stargazers_count > TrendingStars
                                         /\ daysSinceUpdate(i) < TrendingDays})
    IN  CASE type = "trending" -> Sort(trending, Descending(trending, "stargazers_count"))
          [] type = "abandoned" ->
                Filter(repositories, {i \in 1..n : daysSinceUpdate(i) > AbandonedDays})
          [] type = "active" ->
                Filter(repositories, {i \in 1..n : daysSinceUpdate(i) < ActiveDays})
          [] OTHER -> repositories

\* The parts of the report that do not read the wall clock.
generateReport(repositories) ==
    [overview |-> getTotalStats(repositories),
     topRepositories |-> getMostPopular(repositories, 5),
     recentActivity |-> getRecentlyUpdated(repositories, 5),
     averages |-> getAverageMetrics(repositories)]

\* One entry of compareTwo's metrics; label is the name the source gives the
\* last field: winner, larger or more.
Metric(a, b, field, label) ==
    [repo1 |-> a.v[field],
     repo2 |-> b.v[field],
     difference |-> a.v[field] - b.v[field],
     label |-> label,
     named |-> IF a.v[field] > b.v[field] THEN a.v.name ELSE b.v.name]

\* names and metrics of the comparison
compareTwo(repo1, repo2) ==
    [names |-> [repo1 |-> repo1.v.name, repo2 |-> repo2.v.name],
     metrics |->
        [stars |-> Metric(repo1, repo2, "stargazers_count", "winner"),
         forks |-> Metric(repo1, repo2, "forks_count", "winner"),
         watchers |-> Metric(repo1, repo2, "watchers_count", "winner"),
         size |-> Metric(repo1, repo2, "size", "larger"),
         issues |-> Metric(repo1, repo2, "open_issues_count", "more")]]

Stars == S(<<"s","t","a","r","s">>)
Forks == S(<<"f","o","r","k","s">>)
Watchers == S(<<"w","a","t","c","h","e","r","s">>)
Recent == S(<<"r","e","c","e","n","t">>)
Size == S(<<"s","i","z","e">>)
Issues == S(<<"i","s","s","u","e","s">>)

\* A table of comparators in which issues, too, sorts larger values first.
SortKeysAllDescending(repositories, criteria) ==
    CASE criteria = Forks -> Descending(repositories, "forks_count")
      [] criteria = Watchers -> Descending(repositories, "watchers_count")
      [] criteria = Recent -> Descending(repositories, "updated_at")
      [] criteria = Size -> Descending(repositories, "size")
      [] criteria = Issues -> Descending(repositories, "open_issues_count")
      [] OTHER -> Descending(repositories, "stargazers_count")

\* sortFunctions[criteria] || sortFunctions.stars, as sort keys
SortKeys(repositories, criteria) ==
    CASE criteria = Forks -> Descending(repositories, "forks_count")
      [] criteria = Watchers -> Descending(repositories, "watchers_count")
      [] criteria = Recent -> Descending(repositories, "updated_at")
      [] criteria = Size -> Descending(repositories, "size")
      [] criteria = Issues -> Ascending(repositories, "open_issues_count")
      [] OTHER -> Descending(repositories, "stargazers_count")

\* metrics[metric] || 0
getMetricValue(repo, metric) ==
    CASE metric = Stars -> repo.v.stargazers_count
      [] metric = Forks -> repo.v.forks_count
      [] metric = Watchers -> repo.v.watchers_count
      [] metric = Recent -> repo.v.updated_at
      [] metric = Size -> repo.v.size
      [] metric = Issues -> repo.v.open_issues_count
      [] OTHER -> 0

findBest(repositories, criteria) ==
    LET sorted == Sort(repositories, SortKeys(repositories, criteria))
    IN  [best |-> IF Len(sorted) > 0 THEN sorted[1] ELSE Undef,
         rankings |-> [i \in 1..Len(sorted) |->
                          [rank |-> i,
                           name |-> sorted[i].v.name,
                           value |-> getMetricValue(sorted[i], criteria)]],
         criteria |-> criteria]

\* One metric's list of compareMultiple, sorted by (a, b) => b.value - a.value
RankedBy(repositories, field) ==
    LET items == [i \in 1..Len(repositories) |->
                     [name |-> repositories[i].v.name,
                      value |-> repositories[i].v[field]]]
        sorted == Sort(items, [i \in 1..Len(items) |-> 0 - items[i].value])
    IN  [i \in 1..Len(sorted) |->
            [name |-> sorted[i].name, value |-> sorted[i].value, rank |-> i]]

compareMultiple(repositories) ==
    [stargazers_count |-> RankedBy(repositories, "stargazers_count"),
     forks_count |-> RankedBy(repositories, "forks_count"),
     watchers_count |-> RankedBy(repositories, "watchers_count"),
     size |-> RankedBy(repositories, "size"),
     open_issues_count |-> RankedBy(repositories, "open_issues_count")]

\* repo.topics || []
TopicsOf(repo) == IF Truthy(repo.v.topics) THEN repo.v.topics.v ELSE <<>>

\* repo.license?.name
LicenseName(repo) ==
    IF repo.v.license.t \in {"null", "undefined"} THEN Undef ELSE repo.v.license.v.name

\* topics1.filter(topic => topics2.includes(topic)).length
CommonTopics(topics1, topics2) ==
    Cardinality({i \in 1..Len(topics1) :
                    \E j \in 1..Len(topics2) : topics2[j] = topics1[i]})

\* new Set([...topics1, ...topics2]).size
TotalTopics(topics1, topics2) ==
    Cardinality({topics1[i] : i \in 1..Len(topics1)}
                    \cup {topics2[j] : j \in 1..Len(topics2)})

\* The points for topics, (commonTopics.length / totalTopics) * 30, as the
\* fraction num / den; nothing is added when there is no topic at all.
TopicScore(repo1, repo2) ==
    LET common == CommonTopics(TopicsOf(repo1), TopicsOf(repo2))
        total == TotalTopics(TopicsOf(repo1), TopicsOf(repo2))
    IN  IF total > 0
        THEN [num |-> 30 * common, den |-> total]
        ELSE [num |-> 0, den |-> 1]

\* The points for size, Math.max(0, (1 - sizeDiff / avgSize) * 20), as the
\* fraction num / den: with avgSize = (size1 + size2) / 2 the ratio is
\* (size1 + size2 - 2 * sizeDiff) / (size1 + size2).  Nothing is added when
\* avgSize is not positive.
SizeScore(repo1, repo2) ==
    LET sizeDiff == IF repo1.v.size > repo2.v.size
                    THEN repo1.v.size - repo2.v.size
                    ELSE repo2.v.size - repo1.v.size
        sum == repo1.v.size + repo2.v.size
    IN  IF sum > 0
        THEN [num |-> Max(0, 20 * (sum - 2 * sizeDiff)), den |-> sum]
        ELSE [num |-> 0, den |-> 1]

\* Math.round((score / maxScore) * 100) with maxScore = 100, in exact
\* arithmetic.
calculateSimilarity(repo1, repo2) ==
    LET fixed == (IF repo1.v.language = repo2.v.language THEN 20 ELSE 0)
                 + (IF LicenseName(repo1) = LicenseName(repo2) THEN 10 ELSE 0)
                 + (IF repo1.v.private = repo2.v.private THEN 10 ELSE 0)
                 + (IF repo1.v.fork = repo2.v.fork THEN 10 ELSE 0)
        topics == TopicScore(repo1, repo2)
        size == SizeScore(repo1, repo2)
        den == topics.den * size.den
        num == fixed * den + topics.num * size.den + size.num * topics.den
    IN  RoundDiv(num, den)

(***************************************************************************)
(* POST /api/analyze-repos                                                 *)
(***************************************************************************)
AnyThrowsOnRead(array) == \E i \in 1..Len(array) : ThrowsOnRead(array[i])

AnalyzeStart(req) ==
    LET repositories == req.repositories
    IN  IF ~Truthy(repositories) \/ repositories.t # "array"
        THEN Reply(<<>>, 400, [error |-> "Valid repositories array is required"])
        ELSE IF AnyThrowsOnRead(repositories.v)
        THEN Reply(<<>>, 500,
                   [error |-> "Failed to analyze repositories",
                    details |-> TypeErrorText])
        ELSE Reply(<<>>, 200,
                   [success |-> TRUE, analysis |-> generateReport(repositories.v)])

(***************************************************************************)
(* POST /api/compare-repos                                                 *)
(***************************************************************************)
Two == S(<<"t","w","o">>)
Multiple == S(<<"m","u","l","t","i","p","l","e">>)
Best == S(<<"b","e","s","t">>)

CompareStart(req) ==
    LET repositories == req.repositories
        mode == Default(req.mode, Two)
        criteria == IF Truthy(req.criteria) THEN req.criteria ELSE Stars
        failed == Reply(<<>>, 500,
                        [error |-> "Failed to compare repositories",
                         details |-> TypeErrorText])
        done(comparison) ==
            Reply(<<>>, 200,
                  [success |-> TRUE, comparison |-> comparison, mode |-> mode])
    IN  IF ~Truthy(repositories) \/ repositories.t # "array"
        THEN Reply(<<>>, 400, [error |-> "Valid repositories array is required"])
        ELSE IF mode = Two /\ Len(repositories.v) = 2
        THEN IF AnyThrowsOnRead(repositories.v)
             THEN failed
             ELSE done(compareTwo(repositories.v[1], repositories.v[2]))
        ELSE IF mode = Multiple
        THEN IF AnyThrowsOnRead(repositories.v)
             THEN failed
             ELSE done(compareMultiple(repositories.v))
        ELSE IF mode = Best
        THEN IF AnyThrowsOnRead(repositories.v)
             THEN failed
             ELSE done(findBest(repositories.v, criteria))
        ELSE Reply(<<>>, 400,
                   [error |-> "Invalid comparison mode or repository count",
                    details |-> "Mode \"two\" requires exactly 2 repositories"])

(***************************************************************************)
(* The requests and upstream outcomes the environment chooses from         *)
(***************************************************************************)
Tok(n) == S(Rep("a", n))
Bearer(token) == S(BearerPrefix \o token.v)

Octocat == S(<<"o","c","t","o","c","a","t">>)
HelloWorld == S(<<"H","e","l","l","o","-","W","o","r","l","d">>)

\* the `token` query parameter: absent, well-formed, malformed
QueryTokens == {Undef, Tok(MinTokenLength), Tok(5)}

\* Authorization headers of the handlers where the token is optional
OptionalAuthorizations ==
    {Undef, Bearer(Tok(MinTokenLength)), Bearer(Tok(MinTokenLength - 1)),
     S(<<"T","o","k","e","n"," ">> \o Tok(MinTokenLength).v)}

Usernames ==
    {Undef, Octocat, S(<<"-","b","a","d">>),
     S(<<" ","<","o","c","t","o",">"," ">>)}

\* type, sort, per_page and page of a search: all defaulted; a page size in
\* range; a page size over the limit with an unknown sort key and page 0; a
\* page size of one with a negative page; values that are not numbers.
SearchParameters ==
    {[type |-> Undef, sort |-> Undef, per_page |-> Undef, page |-> Undef],
     [type |-> Undef, sort |-> Created, per_page |-> S(<<"2">>), page |-> S(<<"3">>)],
     [type |-> All, sort |-> S(<<"s","t","a","r","s">>),
      per_page |-> S(<<"5","0","0">>), page |-> S(<<"0">>)],
     [type |-> Undef, sort |-> Undef, per_page |-> S(<<"1">>), page |-> S(<<"-","1">>)],
     [type |-> Undef, sort |-> Undef, per_page |-> S(<<"a","b","c">>), page |-> S(<<"2","x">>)]}

SearchRequests ==
    {[authorization |-> a, query_token |-> q, username |-> u,
      type |-> p.type, sort |-> p.sort, per_page |-> p.per_page, page |-> p.page] :
        a \in OptionalAuthorizations, q \in QueryTokens, u \in Usernames,
        p \in SearchParameters}

BadName == S(<<"-","b","a","d">>)
MyOrg == S(<<"m","y","-","o","r","g">>)
MergedName == S(<<"m","e","r","g","e","d",".","r","e","p","o">>)

\* Authorization headers of /api/user: absent, the Bearer scheme with tokens
\* at and around the two length limits and with no token, other schemes.
UserAuthorizations ==
    {Undef,
     Bearer(Tok(MinTokenLength)), Bearer(Tok(MinTokenLength - 1)),
     Bearer(Tok(MaxTokenLength)), Bearer(Tok(MaxTokenLength + 1)),
     Bearer(S(<<>>)),
     S(<<"b","e","a","r","e","r"," ">> \o Tok(MinTokenLength).v),
     S(<<"T","o","k","e","n"," ">> \o Tok(MinTokenLength).v),
     S(<<"B","a","s","i","c"," ">> \o Tok(MinTokenLength).v),
     Tok(MinTokenLength)}

ValidateAuthorizations ==
    {Undef, Bearer(Tok(MinTokenLength)), Bearer(Tok(5)), Bearer(S(<<>>)),
     S(<<"T","o","k","e","n"," ">> \o Tok(MinTokenLength).v)}

\* tokens of a JSON body
BodyTokens == {Undef, Tok(MinTokenLength), Tok(MinTokenLength - 1), N(12345)}

ForkRequests ==
    [owner : {Undef, Octocat, BadName},
     repo : {Undef, HelloWorld, S(<<"a","/","b">>), S(<<".",".">>)},
     token : BodyTokens,
     organization : {Undef, MyOrg, BadName}]

\* entries of a `repositories` array of create-merged-repo
SourceRepo(i) ==
    Obj([name |-> S(<<"s","r","c","-", ToString(i)>>),
         clone_url |-> S(<<"https://github.com/octocat/src-", ToString(i), ".git">>)])

MergeLists ==
    {Undef, S(<<"s","r","c">>), Arr(<<Null>>), Arr(<<SourceRepo(1), Null>>),
     Arr(<<SourceRepo(2), N(7), SourceRepo(1)>>),
     Arr(Rep(SourceRepo(1), MaxMergedRepositories)),
     Arr(Rep(SourceRepo(1), MaxMergedRepositories + 1))}
        \cup {Arr([i \in 1..n |-> SourceRepo(i)]) : n \in 0..MaxRecords}

CreateRequests ==
    [name : {Undef, MergedName, S(<<"a","/","b">>)},
     description : {Undef, S(<<"m","i","n","e">>)},
     repositories : MergeLists,
     token : BodyTokens,
     private : {Undef}]

ContentRequests ==
    [authorization : OptionalAuthorizations,
     query_token : QueryTokens,
     owner : {Octocat, BadName},
     repo : {Undef, HelloWorld, S(<<".",".">>)},
     path : {Undef, S(<<"s","r","c","/","l","i","b",".","j","s">>),
             S(<<".",".","/","e","t","c">>), S(<<"/","e","t","c">>),
             S(<<"a","/",".",".","/","b">>), S(<<"a","\\","b">>)}]

UserRequests == [authorization : UserAuthorizations, query_token : QueryTokens]

ValidateRequests == [authorization : ValidateAuthorizations, query_token : QueryTokens]

\* repository records of analyze-repos and compare-repos
Record(i) ==
    Obj([name |-> S(<<"r", ToString(i)>>),
         stargazers_count |-> 3 * i,
         forks_count |-> i,
         watchers_count |-> 2,
         size |-> 10 - i,
         open_issues_count |-> 4 - i,
         updated_at |-> 1000 * i,
         private |-> (i = 2),
         fork |-> FALSE,
         archived |-> (i = 1)])

RecordLists ==
    {Undef, S(<<"r","1">>), Arr(<<Null>>), Arr(<<Record(1), Null>>)}
        \cup {Arr([i \in 1..n |-> Record(i)]) : n \in 0..(MaxRecords + 1)}

AnalyzeRequests == [repositories : RecordLists]

CompareRequests ==
    [repositories : RecordLists,
     mode : {Undef, Two, Multiple, Best, S(<<"a","l","l">>)},
     criteria : {Undef, Issues, S(<<"a","g","e">>)}]

UpstreamRepo(i) ==
    [id |-> i, name |-> <<"repo", ToString(i)>>, full_name |-> <<"octocat/repo", ToString(i)>>]

ProbeOutcomes ==
    {Ok([type |-> "User"]), Ok([type |-> "Organization"])} \cup Failures

ListOutcomes ==
    {Ok([i \in 1..n |-> UpstreamRepo(i)]) : n \in 0..MaxListed} \cup Failures

ForkOutcomes ==
    {Ok([html_url |-> "https://github.com/me/Hello-World",
         clone_url |-> "https://github.com/me/Hello-World.git",
         ssh_url |-> "git@github.com:me/Hello-World.git",
         full_name |-> "me/Hello-World"])} \cup Failures

\* The repository GitHub creates carries the requested name.
CreateOutcomes(name) ==
    {Ok([name |-> name,
         full_name |-> <<"me/">> \o name.v,
         html_url |-> <<"https://github.com/me/">> \o name.v,
         clone_url |-> <<"https://github.com/me/">> \o name.v \o <<".git">>,
         ssh_url |-> <<"git@github.com:me/">> \o name.v \o <<".git">>])} \cup Failures

ContentOutcomes ==
    {Ok(<<[name |-> "README.md", path |-> "README.md", type |-> "file"]>>)}
        \cup Failures

ProfileOutcomes ==
    {Ok([login |-> "octocat", name |-> "The Octocat", type |-> "User"])} \cup Failures

RateOutcomes ==
    {Ok([rate |-> [limit |-> 5000, remaining |-> 4999]])} \cup Failures

ValidateOutcomes ==
    {OkWithScopes([login |-> "octocat", type |-> "User"], scopes) :
        scopes \in {Undef, S(<<"repo", "user">>), S(<<"repo">>)}} \cup Failures

(***************************************************************************)
(* The state machine                                                       *)
(***************************************************************************)
\* The identifiers a RateLimiter is asked about.
Identifiers == {"user1", "user2"}

\* A new RateLimiter: an empty map; the clock at 0; nothing allowed or
\* refused so far.
Fresh ==
    /\ requests = [identifier \in {} |-> <<>>]
    /\ now = 0
    /\ allowed = [identifier \in Identifiers |-> <<>>]
    /\ blocked = [identifier \in Identifiers |-> Null]

\* What the history keeps of an outcome: a success as it is, a failure by its
\* status (0 when there was no response).
Kind(o) == IF o.ok THEN o ELSE [ok |-> FALSE, status |-> ErrorStatus(o)]

\* The handler h runs on req up to its first await or to its reply.
Start(h, req) ==
    CASE h = "search" -> SearchStart(req)
      [] h = "fork" -> ForkStart(req)
      [] h = "create" -> CreateStart(req)
      [] h = "content" -> ContentStart(req)
      [] h = "user" -> UserStart(req)
      [] h = "validate" -> ValidateStart(req)
      [] h = "analyze" -> AnalyzeStart(req)
      [] h = "compare" -> CompareStart(req)

\* The run r resumes with the outcome o of the call it awaits; a run that
\* has replied stays as it is.
Resume(r, o) ==
    CASE r.pc = "search_probe" -> SearchProbeDone(r, o)
      [] r.pc = "search_list" -> SearchListDone(r, o)
      [] r.pc = "fork" -> ForkDone(r, o)
      [] r.pc = "create" -> CreateDone(r, o)
      [] r.pc = "content" -> ContentDone(r, o)
      [] r.pc = "user_profile" -> UserProfileDone(r, o)
      [] r.pc = "user_rate" -> UserRateDone(r, o)
      [] r.pc = "validate" -> ValidateDone(r, o)
      [] OTHER -> r

Awaiting(pc) == run.pc = pc \/ twin.pc = pc

\* The request req arrives, and twinReq at the twin; both runs execute the
\* handler up to its first await.
Receive(h, req, twinReq) ==
    /\ run.pc = "idle"
    /\ handler' = h
    /\ request' = req
    /\ twinRequest' = twinReq
    /\ run' = Start(h, req)
    /\ twin' = Start(h, twinReq)
    /\ outcomes' = <<>>
    /\ sameUpstream' = TRUE
    /\ UNCHANGED limiter

\* The upstream call awaited at pc completes, with outcome o for the run and
\* o2 for the twin.
Complete(pc, o, o2) ==
    /\ Awaiting(pc)
    /\ run' = IF run.pc = pc THEN Resume(run, o) ELSE run
    /\ twin' = IF twin.pc = pc THEN Resume(twin, o2) ELSE twin
    /\ outcomes' = Append(outcomes, Kind(o))
    /\ sameUpstream' = (sameUpstream /\ o = o2)
    /\ UNCHANGED <<handler, request, twinRequest, limiter>>

SearchReceive ==
    \E req \in SearchRequests, q \in QueryTokens :
        Receive("search", req, [req EXCEPT !.query_token = q])

SearchProbe ==
    \E o \in ProbeOutcomes : \E o2 \in Reworded(o) :
        Complete("search_probe", o, o2)

SearchList ==
    \E o \in ListOutcomes : \E o2 \in Reworded(o) :
        Complete("search_list", o, o2)

ForkReceive ==
    \E req \in ForkRequests : Receive("fork", req, req)

Fork ==
    \E o \in ForkOutcomes : \E o2 \in Reworded(o) :
        Complete("fork", o, o2)

CreateReceive ==
    \E req \in CreateRequests : Receive("create", req, req)

Create ==
    /\ Awaiting("create")
    /\ \E o \in CreateOutcomes(sanitizeString(request.name)) : \E o2 \in Reworded(o) :
           Complete("create", o, o2)

ContentReceive ==
    \E req \in ContentRequests, q \in QueryTokens :
        Receive("content", req, [req EXCEPT !.query_token = q])

Content ==
    \E o \in ContentOutcomes : \E o2 \in Reworded(o) :
        Complete("content", o, o2)

UserReceive ==
    \E req \in UserRequests, q \in QueryTokens :
        Receive("user", req, [req EXCEPT !.query_token = q])

UserProfile ==
    \E o \in ProfileOutcomes : \E o2 \in Reworded(o) :
        Complete("user_profile", o, o2)

UserRate ==
    \E o \in RateOutcomes : \E o2 \in Reworded(o) :
        Complete("user_rate", o, o2)

ValidateReceive ==
    \E req \in ValidateRequests, q \in QueryTokens :
        Receive("validate", req, [req EXCEPT !.query_token = q])

Validate ==
    \E o \in ValidateOutcomes : \E o2 \in Reworded(o) :
        Complete("validate", o, o2)

\* analyze and compare call nothing upstream: the handler runs to its reply.
Analyze ==
    \E req \in AnalyzeRequests : Receive("analyze", req, req)

Compare ==
    \E req \in CompareRequests : Receive("compare", req, req)

\* The response has been sent; the server waits for the next request.
Finish ==
    /\ run.pc = "done"
    /\ twin.pc = "done"
    /\ handler' = "none"
    /\ request' = Undef
    /\ twinRequest' = Undef
    /\ run' = Idle
    /\ twin' = Idle
    /\ outcomes' = <<>>
    /\ sameUpstream' = TRUE
    /\ UNCHANGED limiter

Init ==
    /\ handler = "none"
    /\ request = Undef
    /\ twinRequest = Undef
    /\ run = Idle
    /\ twin = Idle
    /\ outcomes = <<>>
    /\ sameUpstream = TRUE
    /\ Fresh

Next ==
    \/ SearchReceive
    \/ SearchProbe
    \/ SearchList
    \/ ForkReceive
    \/ Fork
    \/ CreateReceive
    \/ Create
    \/ ContentReceive
    \/ Content
    \/ UserReceive
    \/ UserProfile
    \/ UserRate
    \/ ValidateReceive
    \/ Validate
    \/ Analyze
    \/ Compare
    \/ Finish

Spec == Init /\ [][Next]_vars

(***************************************************************************)
(* The pure helpers on their own: a call of one helper on one input.       *)
(* request holds the arguments and run the result.  For sanitizeString the *)
(* twin holds the result of a second application, to the first result; for *)
(* calculateSimilarity it holds the result for the swapped arguments.      *)
(***************************************************************************)
LongText == Rep("a", MaxSanitizedLength - 1)

SanitizeInputs ==
    {Undef, Null, N(123), Arr(<<>>), Bool(TRUE),
     S(<<>>), S(<<" ", " ">>),
     S(<<" ", " ", "h", "e", "l", "l", "o", " ", " ">>),
     S(<<"<", "s", "c", "r", "i", "p", "t", ">">>),
     S(<<"<", " ", "a", " ", "b", " ", ">">>),
     S(<<"\t", "a", "<", ">", "\n">>),
     S(LongText), S(LongText \o <<"b">>), S(LongText \o <<"b", "c">>),
     S(LongText \o <<" ", "b">>), S(LongText \o <<"<", " ", ">", "b">>),
     S(<<" ">> \o LongText \o <<"b", " ">>),
     S(Rep("a", 2 * MaxSanitizedLength))}

PageInputs ==
    {Undef, Null, N(0 - 5), N(0), N(1), N(5), N(50), N(100), N(101), N(200),
     S(<<>>), S(<<"7">>), S(<<"0">>), S(<<"-", "2">>), S(<<"5", "0", "0">>),
     S(<<"a", "b", "c">>), S(<<"3", "a", "b", "c">>), S(<<" ", "4">>)}

PaginationInputs == [page : PageInputs, perPage : PageInputs]

PathInputs ==
    {Undef, Null, N(42), Bool(FALSE), Arr(<<>>),
     S(<<>>), S(<<"s", "r", "c">>), S(<<"s", "r", "c", "/", "a", ".", "j", "s">>),
     S(<<"/", "e", "t", "c">>), S(<<"a", "\\", "b">>),
     S(<<".", ".">>), S(<<".", ".", "/", "a">>), S(<<"a", "/", ".", ".">>),
     S(<<"a", "/", ".", ".", "/", "b">>), S(<<"a", "/", "/", ".", ".">>),
     S(<<"a", ".", ".", "b">>), S(<<".", ".", ".">>), S(<<"a", "/", ".", ".", ".", "/", "b">>),
     S(<<".", ".", "a">>), S(<<".">>), S(<<"a", "/">>),
     S(<<"a", " ", "b">>), S(<<"a", "?", "b">>), S(<<"d", "_", "1", "-", "x">>),
     S(Rep("a", MaxRepoPathLength)), S(Rep("a", MaxRepoPathLength + 1)),
     S(Rep("a", MaxRepoPathLength - 3) \o <<"/", ".", ".">>),
     S(Rep("a", MaxRepoPathLength - 1) \o <<"/", ".", ".">>)}

TopicNames == {"api", "cli"}

TopicLists ==
    {Undef} \cup {Arr(l) : l \in UNION {[1..n -> TopicNames] : n \in 0..MaxTopics}}

\* What two records can agree or differ in, besides size and topics.
Profiles ==
    {[language |-> S(<<"G", "o">>), license |-> Obj([name |-> S(<<"M", "I", "T">>)]),
      private |-> FALSE, fork |-> FALSE],
     [language |-> Null, license |-> Null, private |-> TRUE, fork |-> TRUE],
     [language |-> S(<<"G", "o">>), license |-> Null, private |-> FALSE, fork |-> TRUE]}

SimilarityRecords ==
    {Obj([language |-> p.language, license |-> p.license, private |-> p.private,
          fork |-> p.fork, size |-> n, topics |-> t]) :
        p \in Profiles, n \in 0..MaxSize, t \in TopicLists}

SimilarityInputs == [repo1 : SimilarityRecords, repo2 : SimilarityRecords]

Returned(result) == Reply(<<>>, 0, [result |-> result])

Swapped(pair) == [repo1 |-> pair.repo2, repo2 |-> pair.repo1]

\* A record of the list handed to analytics and comparison: its place in the
\* list names it, the level x gives its stars, watchers, language and
\* visibility, the level y its open issues, forks, size and the day of its
\* last update.
MetricRecord(i, x, y) ==
    Obj([name |-> S(<<"r", ToString(i)>>),
         stargazers_count |-> 6 * x,
         forks_count |-> y,
         watchers_count |-> x,
         size |-> x + y,
         open_issues_count |-> y,
         updated_at |-> 200 * y,
         language |-> IF x = 0 THEN Null
                      ELSE IF x % 2 = 1 THEN S(<<"G", "o">>) ELSE S(<<"J", "S">>),
         license |-> Null,
         topics |-> Undef,
         private |-> (x = 1),
         fork |-> (y = 1),
         archived |-> (x = y)])

Levels == (0..MaxCount) \X (0..MaxCount)

MetricLists ==
    UNION {{Arr([i \in 1..n |-> MetricRecord(i, l[i][1], l[i][2])]) :
                l \in [1..n -> Levels]} : n \in 0..MaxRecords}

Criteria == {Stars, Forks, Issues, S(<<"a", "g", "e">>)}

\* The day on which getSpecialRepos reads the clock.
Today == 200 * MaxCount + 5

LibraryCalls ==
    {"RepositoryAnalytics.getTotalStats",
     "RepositoryAnalytics.getLanguageDistribution",
     "RepositoryAnalytics.getMostPopular",
     "RepositoryAnalytics.getRecentlyUpdated",
     "RepositoryAnalytics.getAverageMetrics",
     "RepositoryAnalytics.getSpecialRepos",
     "RepositoryAnalytics.generateReport",
     "RepositoryComparison.compareTwo",
     "RepositoryComparison.calculateSimilarity",
     "RepositoryComparison.findBest",
     "RepositoryComparison.compareMultiple"}

\* A getMostPopular that sorts this.repositories itself.
SortReceiverInPlace(call) ==
    CASE call \in {"RepositoryAnalytics.getMostPopular",
                   "RepositoryAnalytics.generateReport"} -> "repositories"
      [] call \in {"RepositoryAnalytics.getRecentlyUpdated",
                   "RepositoryComparison.findBest"} -> "[...repositories]"
      [] call = "RepositoryAnalytics.getLanguageDistribution" -> "Object.entries(languages)"
      [] call = "RepositoryAnalytics.getSpecialRepos" -> "repositories.filter(...)"
      [] call = "RepositoryComparison.compareMultiple" -> "repositories.map(...)"
      [] OTHER -> "none"

\* The array that a call of the library sorts.  Array.prototype.sort sorts
\* its receiver in place; it and item.rank = index + 1 in compareMultiple
\* are the only writes of the library.  generateReport sorts through
\* getMostPopular, getRecentlyUpdated and getSpecialRepos; the items that
\* compareMultiple ranks are objects made by its map.
SortReceiver(call) ==
    CASE call \in {"RepositoryAnalytics.getMostPopular",
                   "RepositoryAnalytics.getRecentlyUpdated",
                   "RepositoryAnalytics.generateReport",
                   "RepositoryComparison.findBest"} -> "[...repositories]"
      [] call = "RepositoryAnalytics.getLanguageDistribution" -> "Object.entries(languages)"
      [] call = "RepositoryAnalytics.getSpecialRepos" -> "repositories.filter(...)"
      [] call = "RepositoryComparison.compareMultiple" -> "repositories.map(...)"
      [] OTHER -> "none"

\* The caller's array after a call of the library on it: sorted, by stars,
\* if the caller's array is what the call sorts, and as it was otherwise.
Leaves(call, repositories) ==
    IF SortReceiver(call) = "repositories"
    THEN Sort(repositories, Descending(repositories, "stargazers_count"))
    ELSE repositories

\* A call of the library on the caller's array: the result is returned and
\* the array is left as the call leaves it.
Invoke(call, result) ==
    /\ handler \in {"none"} \cup LibraryCalls
    /\ handler' = call
    /\ run' = Returned(result)
    /\ request' = [request EXCEPT
                      !.repositories = Arr(Leaves(call, request.repositories.v))]
    /\ UNCHANGED <<twinRequest, outcomes, sameUpstream, limiter>>

FunctionsInit ==
    /\ \/ handler = "sanitizeString" /\ request \in SanitizeInputs
       \/ handler = "none" /\ request \in [repositories : MetricLists]
       \/ handler = "validatePagination" /\ request \in PaginationInputs
       \/ handler = "isValidRepoPath" /\ request \in PathInputs
       \/ handler = "calculateSimilarity" /\ request \in SimilarityInputs
    /\ twinRequest = IF handler = "calculateSimilarity" THEN Swapped(request) ELSE request
    /\ run = Idle
    /\ twin = Idle
    /\ outcomes = <<>>
    /\ sameUpstream = TRUE
    /\ Fresh

Sanitize ==
    /\ handler = "sanitizeString"
    /\ run.pc = "idle"
    /\ run' = Returned(sanitizeString(request))
    /\ UNCHANGED <<handler, request, twinRequest, twin, outcomes, sameUpstream, limiter>>

SanitizeAgain ==
    /\ handler = "sanitizeString"
    /\ run.pc = "done"
    /\ twin.pc = "idle"
    /\ twinRequest' = run.body.result
    /\ twin' = Returned(sanitizeString(run.body.result))
    /\ UNCHANGED <<handler, request, run, outcomes, sameUpstream, limiter>>

Paginate ==
    /\ handler = "validatePagination"
    /\ run.pc = "idle"
    /\ run' = Returned(validatePagination(request.page, request.perPage))
    /\ UNCHANGED <<handler, request, twinRequest, twin, outcomes, sameUpstream, limiter>>

CheckPath ==
    /\ handler = "isValidRepoPath"
    /\ run.pc = "idle"
    /\ run' = Returned(isValidRepoPath(request))
    /\ UNCHANGED <<handler, request, twinRequest, twin, outcomes, sameUpstream, limiter>>

Similarity ==
    /\ handler = "calculateSimilarity"
    /\ run.pc = "idle"
    /\ run' = Returned(calculateSimilarity(request.repo1, request.repo2))
    /\ twin' = Returned(calculateSimilarity(twinRequest.repo1, twinRequest.repo2))
    /\ UNCHANGED <<handler, request, twinRequest, outcomes, sameUpstream, limiter>>

GetTotalStats ==
    /\ Invoke("RepositoryAnalytics.getTotalStats", getTotalStats(request.repositories.v))
    /\ twin' = Idle

GetLanguageDistribution ==
    /\ Invoke("RepositoryAnalytics.getLanguageDistribution", getLanguageDistribution(request.repositories.v))
    /\ twin' = Idle

GetMostPopular ==
    /\ \E limit \in {1, 10} :
           Invoke("RepositoryAnalytics.getMostPopular", getMostPopular(request.repositories.v, limit))
    /\ twin' = Idle

GetRecentlyUpdated ==
    /\ \E limit \in {1, 10} :
           Invoke("RepositoryAnalytics.getRecentlyUpdated", getRecentlyUpdated(request.repositories.v, limit))
    /\ twin' = Idle

GetAverageMetrics ==
    /\ Invoke("RepositoryAnalytics.getAverageMetrics", getAverageMetrics(request.repositories.v))
    /\ twin' = Idle

GetSpecialRepos ==
    /\ \E type \in {"trending", "abandoned", "active", "all"} :
           Invoke("RepositoryAnalytics.getSpecialRepos", getSpecialRepos(request.repositories.v, type, Today))
    /\ twin' = Idle

GenerateReport ==
    /\ Invoke("RepositoryAnalytics.generateReport", generateReport(request.repositories.v))
    /\ twin' = Idle

\* compareTwo on the first two records of the list; the twin holds the
\* result for the two records in the other order.
CompareTwo ==
    /\ handler \in {"none"} \cup LibraryCalls
    /\ Len(request.repositories.v) >= 2
    /\ Invoke("RepositoryComparison.compareTwo",
              compareTwo(request.repositories.v[1], request.repositories.v[2]))
    /\ twin' = Returned(compareTwo(request.repositories.v[2], request.repositories.v[1]))

CalculateSimilarity ==
    /\ handler \in {"none"} \cup LibraryCalls
    /\ Len(request.repositories.v) >= 2
    /\ Invoke("RepositoryComparison.calculateSimilarity",
              calculateSimilarity(request.repositories.v[1], request.repositories.v[2]))
    /\ twin' = Idle

\* findBest with one of the criteria; the twin holds the result of
\* findBest(repositories, 'stars').
FindBest ==
    /\ \E criteria \in Criteria :
           Invoke("RepositoryComparison.findBest", findBest(request.repositories.v, criteria))
    /\ twin' = Returned(findBest(request.repositories.v, Stars))

CompareMultiple ==
    /\ Invoke("RepositoryComparison.compareMultiple", compareMultiple(request.repositories.v))
    /\ twin' = Idle

FunctionsNext ==
    \/ GetTotalStats
    \/ GetLanguageDistribution
    \/ GetMostPopular
    \/ GetRecentlyUpdated
    \/ GetAverageMetrics
    \/ GetSpecialRepos
    \/ GenerateReport
    \/ CompareTwo
    \/ CalculateSimilarity
    \/ FindBest
    \/ CompareMultiple
    \/ Sanitize
    \/ SanitizeAgain
    \/ Paginate
    \/ CheckPath
    \/ Similarity

Functions == FunctionsInit /\ [][FunctionsNext]_vars

(***************************************************************************)
(* RateLimiter: one limiter, asked about two identifiers while the clock   *)
(* advances.  handler names the method called last, request holds its      *)
(* identifier and the time of the call, run its result.                    *)
(***************************************************************************)
\* this.windowMs and this.maxRequests, fields that the owner of a limiter
\* sets; the clock runs from 0 to MaxTime.
windowMs == 2
maxRequests == 2
MaxTime == 3

\* this.requests.get(identifier) || []
Get(map, identifier) == IF identifier \in DOMAIN map THEN map[identifier] ELSE <<>>

\* this.requests.set(identifier, value)
Set(map, identifier, value) ==
    [k \in DOMAIN map \cup {identifier} |-> IF k = identifier THEN value ELSE map[k]]

\* timestamps.filter(timestamp => now - timestamp < this.windowMs)
RecentOf(timestamps, time) ==
    Filter(timestamps, {i \in 1..Len(timestamps) : time - timestamps[i] < windowMs})

\* A limiter that counts the refused calls, too.
checkLimitCountingRefusals(map, identifier, time) ==
    LET recentRequests == RecentOf(Get(map, identifier), time)
    IN  [returns |-> Len(recentRequests) < maxRequests,
         requests |-> Set(map, identifier, Append(recentRequests, time))]

\* What checkLimit returns at the given time, and the map it leaves.
checkLimit(map, identifier, time) ==
    LET recentRequests == RecentOf(Get(map, identifier), time)
    IN  IF Len(recentRequests) >= maxRequests
        THEN [returns |-> FALSE, requests |-> map]
        ELSE [returns |-> TRUE,
              requests |-> Set(map, identifier, Append(recentRequests, time))]

\* The map after cleanup(): the identifiers with recent requests, each with
\* its recent requests.
cleanup(map, time) ==
    [k \in {i \in DOMAIN map : Len(RecentOf(map[i], time)) > 0} |-> RecentOf(map[k], time)]

\* A count of the remaining requests that leaves the window out of account.
getRemainingOfAll(map, identifier, time) ==
    Max(0, maxRequests - Len(Get(map, identifier)))

getRemaining(map, identifier, time) ==
    Max(0, maxRequests - Len(RecentOf(Get(map, identifier), time)))

LimiterInit ==
    /\ handler = "none"
    /\ request = Undef
    /\ twinRequest = Undef
    /\ run = Idle
    /\ twin = Idle
    /\ outcomes = <<>>
    /\ sameUpstream = TRUE
    /\ Fresh

\* A method of the limiter is called for the identifier now.
Called(method, identifier, result) ==
    /\ handler' = method
    /\ request' = [identifier |-> identifier, time |-> now]
    /\ run' = Returned(result)
    /\ UNCHANGED <<twinRequest, twin, outcomes, sameUpstream, now>>

\* The oldest request of the identifier that counts at the given time: the
\* earliest allowed call that is younger than windowMs then.
OldestCounted(identifier, time) ==
    LET counted == {allowed[identifier][k] :
                       k \in {j \in 1..Len(allowed[identifier]) :
                                 time - allowed[identifier][j] < windowMs}}
    IN  CHOOSE oldest \in counted : \A other \in counted : oldest <= other

\* checkLimit is called for the identifier.  A refusal is noted with the
\* oldest request that counted against the call; the note is marked as
\* lifted by the next call that is allowed.
CheckLimitFor(identifier) ==
    LET call == checkLimit(requests, identifier, now)
    IN  /\ Called("checkLimit", identifier, call.returns)
        /\ requests' = call.requests
        /\ allowed' = IF call.returns
                      THEN [allowed EXCEPT ![identifier] = Append(@, now)]
                      ELSE allowed
        /\ blocked' =
              IF ~call.returns
              THEN [blocked EXCEPT ![identifier] =
                       [oldest |-> OldestCounted(identifier, now), lifted |-> FALSE]]
              ELSE IF blocked[identifier] = Null
              THEN blocked
              ELSE [blocked EXCEPT ![identifier].lifted = TRUE]

CheckLimit == \E identifier \in Identifiers : CheckLimitFor(identifier)

GetRemaining ==
    \E identifier \in Identifiers :
        /\ Called("getRemaining", identifier, getRemaining(requests, identifier, now))
        /\ UNCHANGED <<requests, allowed, blocked>>

\* The timer of the constructor fires.  It is due every five minutes; the
\* model lets it fire at any time.
Cleanup ==
    /\ requests' = cleanup(requests, now)
    /\ UNCHANGED <<handler, request, twinRequest, run, twin, outcomes,
                   sameUpstream, now, allowed, blocked>>

\* Time passes.
Tick ==
    /\ now < MaxTime
    /\ now' = now + 1
    /\ UNCHANGED <<handler, request, twinRequest, run, twin, outcomes,
                   sameUpstream, requests, allowed, blocked>>

LimiterNext ==
    \/ CheckLimit
    \/ GetRemaining
    \/ Cleanup
    \/ Tick

Limiter == LimiterInit /\ [][LimiterNext]_vars

(***************************************************************************)
(* Properties                                                              *)
(***************************************************************************)
GetHandlers == {"search", "content", "user", "validate"}

Replied == run.pc = "done"

IsError(body) == "error" \in DOMAIN body

C2_NoCallBefore400 ==
    (handler \in {"search", "fork", "create", "content", "user", "analyze", "compare"}
        /\ Replied /\ run.status = 400)
        => run.calls = <<>>

\* C2 (amended): a handler that turns a request down itself replies 400 with
\* zero upstream calls issued; the only 400 sent after an upstream call is
\* repo-content's relay of an upstream 400, after its single call.
C2_ValidationBeforeUpstream ==
    (handler # "none" /\ Replied /\ run.status = 400) =>
        IF handler = "content" /\ run.body.error = "Failed to fetch repository content"
        THEN /\ Len(run.calls) = 1
             /\ outcomes = <<[ok |-> FALSE, status |-> 400]>>
        ELSE /\ run.calls = <<>>
             /\ outcomes = <<>>

\* A fork request with a malformed token has been turned down, nothing called.
C2_Witness ==
    /\ handler = "fork"
    /\ request.owner = Octocat
    /\ request.repo = HelloWorld
    /\ request.token = Tok(MinTokenLength - 1)
    /\ Replied
    /\ run.status = 400
    /\ run.calls = <<>>

HasBearerToken(authorization) ==
    /\ authorization # Undef
    /\ Len(authorization.v) > 7
    /\ SubSeq(authorization.v, 1, 7) = <<"B", "e", "a", "r", "e", "r", " ">>

\* C3 (as stated): every reply of validate-token has status 200, failures
\* being encoded in the body as {valid: false, error}.
C3_ValidateAlways200 ==
    (handler = "validate" /\ Replied) =>
        /\ run.status = 200
        /\ IsError(run.body) => run.body.valid = FALSE

\* C3 (amended): a validate-token request that carries a non-empty token in
\* an `Authorization: Bearer` header is answered 200 whatever the upstream
\* outcome, an upstream failure as {valid: false, error}; a request without
\* such a token is answered 400 'Token is required' with no upstream call.
C3_Validate200WithToken ==
    (handler = "validate" /\ Replied) =>
        IF HasBearerToken(request.authorization)
        THEN /\ run.status = 200
             /\ Len(outcomes) = 1
             /\ outcomes[1].ok => run.body.valid = TRUE
             /\ ~outcomes[1].ok => (run.body.valid = FALSE /\ IsError(run.body))
        ELSE /\ run.status = 400
             /\ run.body = [error |-> "Token is required"]
             /\ run.calls = <<>>

\* Upstream has answered 401 to a token and validate-token has replied 200
\* with valid: false.
C3_Witness ==
    /\ handler = "validate"
    /\ Replied
    /\ outcomes = <<[ok |-> FALSE, status |-> 401]>>
    /\ run.status = 200
    /\ run.body.valid = FALSE

\* C4: compare-repos answers 400, and returns no comparison, when mode is
\* `two` and the list does not hold exactly 2 records, when mode is `multiple`
\* or `best` and the list holds fewer than 2, and when mode is none of the
\* three.
C4_WrongCardinalityRejected ==
    (handler = "compare" /\ Replied /\ request.repositories.t = "array") =>
        LET n == Len(request.repositories.v)
            mode == IF request.mode = Undef THEN Two ELSE request.mode
        IN  (\/ mode = Two /\ n # 2
             \/ mode \in {Multiple, Best} /\ n < 2
             \/ mode \notin {Two, Multiple, Best})
                => (run.status = 400 /\ "comparison" \notin DOMAIN run.body)

\* C5: analyze-repos answers 400 when `repositories` is absent, not an array
\* or an empty array, and returns a report only for a non-empty array.
C5_EmptyInputRejected ==
    (handler = "analyze" /\ Replied) =>
        LET nonEmpty == /\ request.repositories.t = "array"
                        /\ Len(request.repositories.v) > 0
        IN  /\ ~nonEmpty => run.status = 400
            /\ "analysis" \in DOMAIN run.body => nonEmpty

AcceptableAuthorization(authorization) ==
    /\ authorization # Undef
    /\ Len(authorization.v) >= 7
    /\ SubSeq(authorization.v, 1, 7) = <<"B", "e", "a", "r", "e", "r", " ">>
    /\ Len(authorization.v) - 7 >= 40
    /\ Len(authorization.v) - 7 <= 255

C7_SourceBoundEnforced ==
    (/\ handler = "create"
     /\ isValidRepositoryName(sanitizeString(request.name))
     /\ isValidGitHubToken(request.token)) =>
        LET list == request.repositories
            n == IF list.t = "array" THEN Len(list.v) ELSE 0
        IN  IF list.t = "array" /\ n >= 1 /\ n <= 50
            THEN run.status # 400
            ELSE /\ Replied
                 /\ run.status = 400
                 /\ run.calls = <<>>
                 /\ n > 50 => run.body.error = "Maximum 50 repositories can be merged at once"

\* A request with 51 sources has been turned down, naming the maximum.
C7_Witness ==
    /\ handler = "create"
    /\ request.name = MergedName
    /\ request.token = Tok(MinTokenLength)
    /\ request.repositories.t = "array"
    /\ Len(request.repositories.v) = 51
    /\ Replied
    /\ run.status = 400
    /\ run.body.error = "Maximum 50 repositories can be merged at once"
    /\ run.calls = <<>>

\* C8: in get-authenticated-user the rate-limit call is issued only after
\* the profile call has succeeded; a failed profile call ends the handler
\* with the mapped error (401, 403, otherwise 500) and no second call.
C8_UserCallsSequential ==
    handler = "user" =>
        /\ Len(run.calls) <= 2
        /\ Len(run.calls) >= 1 => run.calls[1].url = <<Lit("user")>>
        /\ Len(run.calls) = 2 =>
              /\ run.calls[2].url = <<Lit("rate_limit")>>
              /\ Len(outcomes) >= 1
              /\ outcomes[1].ok
        /\ (Len(outcomes) >= 1 /\ ~outcomes[1].ok) =>
              /\ Replied
              /\ Len(run.calls) = 1
              /\ IsError(run.body)
              /\ run.status = IF outcomes[1].status \in {401, 403}
                              THEN outcomes[1].status
                              ELSE 500

\* The profile call has failed with 401: one call, reply 401.
C8_Witness ==
    /\ handler = "user"
    /\ outcomes = <<[ok |-> FALSE, status |-> 401]>>
    /\ Replied
    /\ run.status = 401
    /\ Len(run.calls) = 1

\* C9: in search a failed probe never ends the handler: once the probe has
\* returned, exactly one list call has been issued, at the organization
\* endpoint if the probe succeeded with type `Organization` and at the user
\* endpoint otherwise, whatever the probe's failure.
C9_ProbeFailureFallsBack ==
    (handler = "search" /\ Len(outcomes) >= 1) =>
        LET username == sanitizeString(request.username).v
        IN  /\ Len(run.calls) = 2
            /\ run.calls[2].url =
                  IF outcomes[1].ok /\ outcomes[1].data.type = "Organization"
                  THEN <<Lit("orgs"), Var(username), Lit("repos")>>
                  ELSE <<Lit("users"), Var(username), Lit("repos")>>
            /\ Len(outcomes) = 1 => run.pc = "search_list"
            /\ Len(outcomes) = 2 => Replied

\* The probe has failed with 404 and the list call has then succeeded.
C9_Witness ==
    /\ handler = "search"
    /\ Len(outcomes) = 2
    /\ outcomes[1] = [ok |-> FALSE, status |-> 404]
    /\ outcomes[2].ok
    /\ Replied
    /\ run.status = 200
    /\ run.calls[2].url[1] = Lit("users")

\* C10: the `error` field does not depend on upstream wording.  For every
\* handler but validate-token, the run and its twin, given the same request
\* and upstream failures that differ only in the text of the message, reply
\* with the same status and the same `error` string.
C10_ErrorFieldStable ==
    (/\ handler \notin {"none", "validate"}
     /\ twinRequest = request
     /\ Replied
     /\ twin.pc = "done") =>
        /\ twin.status = run.status
        /\ IsError(run.body) => (IsError(twin.body) /\ twin.body.error = run.body.error)

\* A fork has failed with 422 under two wordings: the details differ, the
\* error does not.
C10_Witness ==
    /\ handler = "fork"
    /\ Replied
    /\ twin.pc = "done"
    /\ ~sameUpstream
    /\ run.status = 422
    /\ run.body.details # twin.body.details
    /\ run.body.error = twin.body.error
UpstreamHandlers == {"search", "fork", "create", "content", "user"}

\* The upstream statuses a handler's catch maps to a category of their own.
SpecificStatuses(h) ==
    CASE h = "search" -> {403, 404}
      [] h = "fork" -> {403, 404, 422}
      [] h = "create" -> {403, 422}
      [] h = "user" -> {401, 403}
      [] OTHER -> {}

LastOutcome == outcomes[Len(outcomes)]

\* C11: for search, fork, create-merged-repo, repo-content and get-user, a
\* reply that follows an upstream failure of the generic kind (a status with
\* no category of its own, or a network failure) has a `details` field that
\* holds a message string.
C11_GenericFailureCarriesDetails ==
    (/\ handler \in UpstreamHandlers
     /\ Replied
     /\ Len(outcomes) >= 1
     /\ ~LastOutcome.ok
     /\ LastOutcome.status \notin SpecificStatuses(handler)) =>
        /\ "details" \in DOMAIN run.body
        /\ run.body.details.t = "string"

\* C12: a failed list call of search is answered 403 for upstream 403, 404
\* 'User not found' for upstream 404 and 500 otherwise; a failed fork call is
\* answered 403, 404, 422 for those upstream statuses and 500 otherwise; a 2xx
\* reply of either handler follows a successful list or fork call.
C12_FailuresMappedByStatus ==
    /\ (handler = "search" /\ Len(outcomes) = 2 /\ ~outcomes[2].ok) =>
          /\ Replied
          /\ run.status = IF outcomes[2].status \in {403, 404}
                          THEN outcomes[2].status
                          ELSE 500
          /\ outcomes[2].status = 404 => run.body.error = "User not found"
    /\ (handler = "fork" /\ Len(outcomes) = 1 /\ ~outcomes[1].ok) =>
          /\ Replied
          /\ run.status = IF outcomes[1].status \in {403, 404, 422}
                          THEN outcomes[1].status
                          ELSE 500
    /\ (handler \in {"search", "fork"} /\ Replied /\ run.status \in 200..299) =>
          /\ Len(outcomes) >= 1
          /\ LastOutcome.ok

\* The list call of a search has failed with 404 after a successful probe.
C12_Witness ==
    /\ handler = "search"
    /\ Len(outcomes) = 2
    /\ outcomes[1].ok
    /\ outcomes[2] = [ok |-> FALSE, status |-> 404]
    /\ Replied
    /\ run.status = 404
    /\ run.body.error = "User not found"

MaxCalls(h) ==
    CASE h \in {"search", "user"} -> 2
      [] h \in {"fork", "create", "content", "validate"} -> 1
      [] OTHER -> 0

C15_SanitizeIdempotent ==
    handler = "sanitizeString" =>
        /\ (Replied /\ request.t # "string") => run.body.result = S(<<>>)
        /\ twin.pc = "done" => twin.body.result = run.body.result

RECURSIVE Decimal(_)
\* The number a sequence of digits denotes.
Decimal(s) ==
    IF Len(s) = 0
    THEN 0
    ELSE 10 * Decimal(SubSeq(s, 1, Len(s) - 1))
            + (CHOOSE d \in 0..9 : ToString(d) = s[Len(s)])

\* The integer a value is or, for a string, begins with after optional
\* whitespace and a sign; numeric is false when there is none.
Reading(x) ==
    IF x.t = "number"
    THEN [numeric |-> TRUE, value |-> x.v]
    ELSE IF x.t # "string"
    THEN [numeric |-> FALSE, value |-> 0]
    ELSE LET s == x.v
             start == CHOOSE i \in 1..(Len(s) + 1) :
                          /\ \A j \in 1..(i - 1) : s[j] \in {" ", "\t", "\n", "\r"}
                          /\ i = Len(s) + 1 \/ s[i] \notin {" ", "\t", "\n", "\r"}
             signed == start <= Len(s) /\ s[start] \in {"+", "-"}
             first == IF signed THEN start + 1 ELSE start
             last == CHOOSE k \in (first - 1)..Len(s) :
                         /\ \A j \in first..k : s[j] \in Digits
                         /\ k = Len(s) \/ s[k + 1] \notin Digits
             magnitude == Decimal(SubSeq(s, first, last))
         IN  [numeric |-> last >= first,
              value |-> IF signed /\ s[start] = "-" THEN 0 - magnitude ELSE magnitude]

\* The value is an integer as it stands: a number, or a string that is
\* nothing but an optionally signed run of digits.
IsInteger(x) ==
    \/ x.t = "number"
    \/ /\ x.t = "string"
       /\ LET digits == IF Len(x.v) > 0 /\ x.v[1] \in {"+", "-"}
                        THEN SubSeq(x.v, 2, Len(x.v))
                        ELSE x.v
          IN  Len(digits) > 0 /\ \A i \in 1..Len(digits) : digits[i] \in Digits

DotDotAt(s, i) ==
    /\ s[i] = "."
    /\ s[i + 1] = "."
    /\ i = 1 \/ s[i - 1] = "/"
    /\ i + 1 = Len(s) \/ s[i + 2] = "/"

\* C17: isValidRepoPath returns a boolean for every input: true for an
\* absent or empty path; false for a value that is not a string, a path that
\* starts with `/`, holds a backslash or has a `..` segment; and for any
\* other path true exactly when it has at most 1000 characters, each of them
\* alphanumeric, `.`, `_`, `/` or `-`.
C17_RepoPathValidated ==
    (handler = "isValidRepoPath" /\ Replied) =>
        LET path == request
            result == run.body.result
        IN  /\ result \in BOOLEAN
            /\ result =
                  IF path \in {Undef, Null, S(<<>>)}
                  THEN TRUE
                  ELSE IF path.t # "string"
                  THEN FALSE
                  ELSE /\ path.v[1] # "/"
                       /\ \A i \in 1..Len(path.v) : path.v[i] # "\\"
                       /\ ~\E i \in 1..(Len(path.v) - 1) : DotDotAt(path.v, i)
                       /\ Len(path.v) <= 1000
                       /\ \A i \in 1..Len(path.v) :
                              path.v[i] \in Alnum \cup {".", "_", "/", "-"}

\* The path a/../b has been rejected.
C17_Witness ==
    /\ handler = "isValidRepoPath"
    /\ request = S(<<"a", "/", ".", ".", "/", "b">>)
    /\ Replied
    /\ run.body.result = FALSE

\* C18: the similarity of a and b is the similarity of b and a, for every
\* pair of records, topics repeated or absent included.
C18_SimilaritySymmetric ==
    (handler = "calculateSimilarity" /\ Replied /\ twin.pc = "done") =>
        twin.body.result = run.body.result

\* C19: two records that agree in language, license, visibility, fork
\* status, topics and size score exactly 100, records without topics or of
\* size 0 included.
C19_IdenticalScores100 ==
    (handler = "calculateSimilarity" /\ Replied /\ request.repo1 = request.repo2) =>
        run.body.result = 100

\* C20: the similarity score lies in 0..100 for every pair of records with
\* sizes >= 0 and any topic lists; the topics contribute at most 30 points
\* and the size at most 20.
C20_SimilarityInRange ==
    (handler = "calculateSimilarity" /\ Replied) =>
        LET topics == TopicScore(request.repo1, request.repo2)
            size == SizeScore(request.repo1, request.repo2)
        IN  /\ run.body.result \in 0..100
            /\ topics.num <= 30 * topics.den
            /\ size.num <= 20 * size.den

\* The record of the list that carries the name.
Named(records, name) ==
    records[CHOOSE i \in 1..Len(records) : records[i].v.name = name]

\* The ranking is a permutation of the records, ranked 1..n in list order,
\* with the values taken from the field and ordered as given.
Ranks(result, records, field, descending) ==
    LET n == Len(records)
        rankings == result.rankings
    IN  /\ Len(rankings) = n
        /\ \A k \in 1..n : rankings[k].rank = k
        /\ {rankings[k].name : k \in 1..n} = {records[i].v.name : i \in 1..n}
        /\ n > 0 => result.best = Named(records, rankings[1].name)
        /\ \A k \in 1..n : rankings[k].value = Named(records, rankings[k].name).v[field]
        /\ \A k \in 1..(n - 1) :
              IF descending
              THEN rankings[k].value >= rankings[k + 1].value
              ELSE rankings[k].value <= rankings[k + 1].value

\* C21: findBest returns a ranking that is a permutation of the records with
\* ranks 1..n in list order and best the record of rank 1; by stars the
\* values do not increase down the ranking, by issues they do not decrease;
\* each value is the record's own value of the metric.
C21_RankingOrdered ==
    (handler = "RepositoryComparison.findBest" /\ Replied) =>
        LET result == run.body.result
            records == request.repositories.v
        IN  /\ result.criteria = Stars =>
                  Ranks(result, records, "stargazers_count", TRUE)
            /\ result.criteria = Forks =>
                  Ranks(result, records, "forks_count", TRUE)
            /\ result.criteria = Issues =>
                  Ranks(result, records, "open_issues_count", FALSE)

\* A ranking by issues that puts the second of two records first, the first
\* having more open issues and more stars.
C21_Witness ==
    /\ handler = "RepositoryComparison.findBest"
    /\ Replied
    /\ run.body.result.criteria = Issues
    /\ Len(request.repositories.v) = 2
    /\ request.repositories.v[1].v.open_issues_count
           > request.repositories.v[2].v.open_issues_count
    /\ request.repositories.v[1].v.stargazers_count
           > request.repositories.v[2].v.stargazers_count
    /\ run.body.result.best = request.repositories.v[2]
    /\ run.body.result.rankings[1].value < run.body.result.rankings[2].value

\* The criteria for which findBest has a comparator of their own.
Recognized == {Stars, Forks, Watchers, Recent, Size, Issues}

\* C22: with a criterion outside the recognized set findBest returns the
\* same best record and the same ranking list, rank, name and value of each
\* entry, as findBest(records, 'stars').
C22_UnknownCriterionAsStars ==
    (/\ handler = "RepositoryComparison.findBest"
     /\ Replied
     /\ run.body.result.criteria \notin Recognized) =>
        /\ run.body.result.best = twin.body.result.best
        /\ run.body.result.rankings = twin.body.result.rankings

\* The total of a count over the records, counted unit by unit.
Total(records, field) ==
    Cardinality({p \in (1..Len(records)) \X (1..(6 * MaxCount + 6)) :
                    p[2] <= records[p[1]].v[field]})

\* a is an integer nearest to total / n.
Nearest(a, total, n) ==
    /\ a \in Int
    /\ 2 * (a * n - total) <= n
    /\ 2 * (total - a * n) <= n

\* C23: on an empty list getTotalStats returns zero for the number of
\* records, every sum and every flag count, and getAverageMetrics returns
\* null; on a list of n > 0 records every average is the total of its count
\* divided by n, rounded to a nearest integer.
C23_NoDivisionByZero ==
    /\ (/\ handler = "RepositoryAnalytics.getTotalStats"
        /\ Replied
        /\ Len(request.repositories.v) = 0) =>
            run.body.result =
                [totalRepos |-> 0, totalStars |-> 0, totalForks |-> 0,
                 totalWatchers |-> 0, totalSize |-> 0, totalIssues |-> 0,
                 privateRepos |-> 0, forkedRepos |-> 0, archivedRepos |-> 0]
    /\ (handler = "RepositoryAnalytics.getAverageMetrics" /\ Replied) =>
            LET records == request.repositories.v
                n == Len(records)
                averages == run.body.result
            IN  IF n = 0
                THEN averages = Null
                ELSE /\ Nearest(averages.avgStars, Total(records, "stargazers_count"), n)
                     /\ Nearest(averages.avgForks, Total(records, "forks_count"), n)
                     /\ Nearest(averages.avgWatchers, Total(records, "watchers_count"), n)
                     /\ Nearest(averages.avgSize, Total(records, "size"), n)
                     /\ Nearest(averages.avgIssues, Total(records, "open_issues_count"), n)

\* The averages of an empty list have been asked for.
C23_Witness ==
    /\ handler = "RepositoryAnalytics.getAverageMetrics"
    /\ Replied
    /\ Len(request.repositories.v) = 0
    /\ run.body.result = Null

\* The averages of two records whose open issues add up to an odd number.
C23_WitnessRounded ==
    /\ handler = "RepositoryAnalytics.getAverageMetrics"
    /\ Replied
    /\ Len(request.repositories.v) = 2
    /\ Total(request.repositories.v, "open_issues_count") % 2 = 1
    /\ 2 * run.body.result.avgIssues = Total(request.repositories.v, "open_issues_count") + 1

\* C24: the merge instructions of a successful creation are 2 + 5n steps for
\* n sources: the clone of the new repository and the change into it, then
\* for each source, in the order of the request, the block mkdir, cd, clone
\* of the source, removal of .git, return to the parent; the source list is
\* echoed unchanged.
C24_MergeStepsOrdered ==
    (handler = "create" /\ Replied /\ run.status = 200) =>
        LET sources == request.repositories.v
            n == Len(sources)
            created == LastOutcome.data
            steps == run.body.merge_instructions.steps
        IN  /\ Len(steps) = 2 + 5 * n
            /\ steps[1] = [cmd |-> "git clone", arg |-> created.clone_url]
            /\ steps[2].cmd = "cd"
            /\ steps[2].arg = created.name
            /\ \A i \in 1..n :
                  LET at == 2 + 5 * (i - 1)
                  IN  /\ steps[at + 1].cmd = "mkdir"
                      /\ steps[at + 2].cmd = "cd"
                      /\ steps[at + 2].arg = steps[at + 1].arg
                      /\ steps[at + 3].cmd = "git clone into ."
                      /\ steps[at + 4].cmd = "rm -rf .git"
                      /\ steps[at + 5].cmd = "cd .."
                      /\ sources[i].t = "object" =>
                            /\ steps[at + 1].arg = sources[i].v.name
                            /\ steps[at + 3].arg = sources[i].v.clone_url
            /\ run.body.merge_instructions.repositories = request.repositories

\* A repository has been created for three sources, the second source given
\* before the first, and the instructions have been returned.
C24_Witness ==
    /\ handler = "create"
    /\ Replied
    /\ run.status = 200
    /\ request.repositories = Arr(<<SourceRepo(2), N(7), SourceRepo(1)>>)
    /\ Len(run.body.merge_instructions.steps) = 17
    /\ run.body.merge_instructions.steps[3].arg = SourceRepo(2).v.name
    /\ run.body.merge_instructions.steps[13].arg = SourceRepo(1).v.name

\* C29: create-merged-repo reports a failure only when nothing was created:
\* once the creation call has succeeded upstream, the reply is the 200
\* response with the repository summary and the merge instructions.
C29_FailureMeansNothingCreated ==
    (/\ handler = "create"
     /\ Replied
     /\ \E k \in 1..Len(outcomes) : outcomes[k].ok) =>
        /\ run.status = 200
        /\ run.body.success = TRUE
        /\ run.body.repository.name = LastOutcome.data.name
        /\ Len(run.body.merge_instructions.steps) >= 2

\* The calls allowed to the identifier that are younger than windowMs at the
\* given time.
Younger(identifier, time) ==
    {k \in 1..Len(allowed[identifier]) : time - allowed[identifier][k] < windowMs}

\* C25: for each identifier at most maxRequests calls are allowed within
\* any span shorter than windowMs; a call is refused exactly when
\* maxRequests earlier allowed calls of its identifier are younger than
\* windowMs, whatever was refused and whatever other identifiers did.
C25_SlidingWindow ==
    /\ \A identifier \in Identifiers :
          \A k \in 1..Len(allowed[identifier]) :
              Cardinality({j \in 1..Len(allowed[identifier]) :
                              /\ allowed[identifier][j] >= allowed[identifier][k]
                              /\ allowed[identifier][j] - allowed[identifier][k] < windowMs})
                  <= maxRequests
    /\ (handler = "checkLimit" /\ run.body.result = TRUE) =>
          Cardinality(Younger(request.identifier, request.time)) - 1 < maxRequests
    /\ (handler = "checkLimit" /\ run.body.result = FALSE) =>
          Cardinality(Younger(request.identifier, request.time)) >= maxRequests

\* A call for one identifier has been refused although the other
\* identifier's calls go through at the same time.
C25_Witness ==
    /\ handler = "checkLimit"
    /\ run.body.result = FALSE
    /\ request.identifier = "user1"
    /\ Len(allowed["user1"]) = maxRequests
    /\ Len(allowed["user2"]) > 0
    /\ allowed["user2"][Len(allowed["user2"])] = request.time

\* C26: a refusal is never permanent: once windowMs has passed since the
\* oldest request counted at an identifier's refusal, the next checkLimit for
\* it returns true; getRemaining(id) is always maxRequests less the number
\* of allowed calls of id younger than windowMs and never negative, and a
\* call of it leaves the limiter as it was.
C26_BlockExpires ==
    /\ [][\A identifier \in Identifiers :
            (/\ blocked[identifier] # Null
             /\ ~blocked[identifier].lifted
             /\ now - blocked[identifier].oldest >= windowMs
             /\ CheckLimitFor(identifier)) => run'.body.result = TRUE]_vars
    /\ [](/\ \A identifier \in Identifiers :
                /\ getRemaining(requests, identifier, now)
                      = maxRequests - Cardinality(Younger(identifier, now))
                /\ getRemaining(requests, identifier, now) >= 0
          /\ handler = "getRemaining" =>
                run.body.result
                    = maxRequests - Cardinality(Younger(request.identifier, request.time)))
    /\ [][GetRemaining => requests' = requests]_vars

\* An identifier refused at time 0 is let through at time windowMs, the
\* moment its oldest counted request has expired.
C26_Witness ==
    /\ handler = "checkLimit"
    /\ run.body.result = TRUE
    /\ request.time = windowMs
    /\ blocked[request.identifier] = [oldest |-> 0, lifted |-> TRUE]
    /\ Len(allowed[request.identifier]) = maxRequests + 1
    /\ allowed[request.identifier][maxRequests] = 0
    /\ allowed[request.identifier][maxRequests + 1] = windowMs

InputParts(calls) ==
    {calls[c].url[k].var :
        <<c, k>> \in {p \in (1..Len(calls)) \X (1..5) :
                        /\ p[2] <= Len(calls[p[1]].url)
                        /\ "var" \in DOMAIN calls[p[1]].url[p[2]]}}

\* C28: no request that repo-content or fork-repo accepts puts a `..`
\* segment into the URL called: no `/`-separated segment of the owner, the
\* repository name or the path in that URL is `..`.
C28_NoTraversalSegment ==
    handler \in {"content", "fork"} =>
        \A part \in InputParts(run.calls) : ~HasDotDotSegment(part)

\* The fields that compareTwo's metrics compare.
Compared ==
    [stars |-> "stargazers_count", forks |-> "forks_count",
     watchers |-> "watchers_count", size |-> "size", issues |-> "open_issues_count"]

\* C30: compareTwo(a, b) and compareTwo(b, a) name the same record under
\* each of stars, forks, watchers, size and issues, also when the two values
\* are equal, and report differences that are negations of each other; when
\* the values differ the record named is the one with the larger value and
\* the difference is a's value less b's.
C30_CompareTwoSymmetric ==
    (handler = "RepositoryComparison.compareTwo" /\ Replied) =>
        LET a == request.repositories.v[1]
            b == request.repositories.v[2]
            ab == run.body.result.metrics
            ba == twin.body.result.metrics
        IN  \A m \in DOMAIN Compared :
                /\ ab[m].named = ba[m].named
                /\ ab[m].difference = 0 - ba[m].difference
                /\ a.v[Compared[m]] > b.v[Compared[m]] => ab[m].named = a.v.name
                /\ a.v[Compared[m]] < b.v[Compared[m]] => ab[m].named = b.v.name
                /\ ab[m].difference = a.v[Compared[m]] - b.v[Compared[m]]
====
